---- MODULE Spec2Model ----
(***************************************************************************)
(* A model of the resolution pipeline of jenkins-job-builder:              *)
(*   - jenkins_jobs/local_yaml.py: the YAML loader with the !include*      *)
(*     tags, lazy loading and the anchors kept between documents.          *)
(*   - jenkins_jobs/registry.py: ModuleRegistry.dispatch, which resolves a *)
(*     component to a macro expansion or to a call of a component function.*)
(* Strings are sequences of one-character strings.  A document is the      *)
(* sequence of nodes of its root (a single scalar, or a block sequence).   *)
(***************************************************************************)
EXTENDS Integers, Sequences, FiniteSets, TLC

VARIABLES
    anchors,   \* LocalAnchorLoader.anchors: anchor name -> composed node
    stack,     \* the loaders at work: the top-level one and the nested includes
    result,    \* what the last load() / LazyLoader.format() returned or raised
    held,      \* the LazyLoader or LazyLoaderCollection object the caller
               \* holds (the node of a LazyLoader is mutable)
    log,       \* the warning and error records of the operation at work
    call,      \* the call being served: its operation and arguments
    created,   \* history: the held LazyLoader as it was when created
    sessionDefs, \* history: the anchors composed since the last load()
    mnode,     \* a mapping node: its (key, value) node pairs in source order
    mdata,     \* the OrderedDict constructed from mnode
    mdump,     \* the mapping node local_yaml.dump() represents mdata as
    mreload,   \* the OrderedDict constructed from the dumped document
    entry_points_cache, \* ModuleRegistry.entry_points_cache (class attribute)
    masked_warned, \* ModuleRegistry.masked_warned of the registry in use
    allow_empty_variables, \* jjb_config.yamlparser['allow_empty_variables']
    parser_data, \* ModuleRegistry.__parser_data of the registry in use, if set
    dstack,    \* the loops over components at work: gen_xml, then macro bodies
    xml,       \* the calls of component functions made, with their XML parent
    dlog,      \* the warning records of the gen_xml call at work
    dresult,   \* what the last gen_xml call returned or raised
    dcall,     \* the gen_xml call being served: its arguments
    dtrace,    \* history: the dispatch calls of the gen_xml call at work
    discovered, \* history: the entry point discoveries of that gen_xml call
    warned,    \* history: the masking warnings of the registry in use, each
               \* the name and the component type it was given for
    inherited, \* history: the entry points cache as it was when the registry
               \* in use was created
    cm_parent, \* convert_mapping_to_xml: the child elements appended to parent
    cm_data,   \* its data: the value given for each option name, if any
    cm_mapping, \* its mapping: the entries (optname, xmlname, default[, options])
    cm_fail_required, \* its fail_required
    cm_elem,   \* the place in the mapping of the entry its loop is at
    cm_result  \* what the call returned or raised

vars == <<anchors, stack, result, held, log, call, created, sessionDefs,
          mnode, mdata, mdump, mreload,
          entry_points_cache, masked_warned, allow_empty_variables,
          parser_data, dstack,
          xml, dlog, dresult, dcall, dtrace, discovered, warned, inherited,
          cm_parent, cm_data, cm_mapping, cm_fail_required, cm_elem, cm_result>>

loaderVars == <<anchors, stack, result, held, log, call, created, sessionDefs>>
mapVars == <<mnode, mdata, mdump, mreload>>
registryVars == <<entry_points_cache, masked_warned, allow_empty_variables,
                  parser_data, dstack, xml, dlog, dresult, dcall, dtrace, discovered,
                  warned, inherited>>
helperVars == <<cm_parent, cm_data, cm_mapping, cm_fail_required, cm_elem, cm_result>>

(***************************************************************************)
(* Bounds of the model.                                                    *)
(***************************************************************************)
MaxPathLen == 3    \* longest path string of a scalar include node
MaxSeqLen == 2     \* most paths in a sequence include node
MaxDocLen == 2     \* most nodes in a top-level session document
MaxMapLen == 3     \* most entries of a mapping node
MaxListLen == 2    \* most components in a list given to gen_xml
MaxMappingLen == 2 \* most entries of a mapping given to convert_mapping_to_xml
MaxDepth == 3      \* the recursion limit of the interpreter, in dispatch calls

None == [k |-> "none", v |-> <<>>]

(***************************************************************************)
(* Strings.                                                                *)
(***************************************************************************)
Chars == {"{", "}", "v", "0"}
Digits == {"0"}

RECURSIVE StringsUpTo(_)
StringsUpTo(n) ==
    IF n = 0 THEN {<<>>}
    ELSE LET shorter == StringsUpTo(n - 1)
         IN  shorter \cup {Append(s, c) : s \in shorter, c \in Chars}

\* u'\n'.join(contents)
RECURSIVE Join(_)
Join(contents) ==
    IF contents = <<>> THEN <<>>
    ELSE IF Len(contents) = 1 THEN contents[1]
    ELSE contents[1] \o <<"\n">> \o Join(Tail(contents))

\* ':'.join(loader.search_path)
RECURSIVE JoinColon(_)
JoinColon(dirs) ==
    IF dirs = <<>> THEN <<>>
    ELSE IF Len(dirs) = 1 THEN <<dirs[1]>>
    ELSE <<dirs[1], ":">> \o JoinColon(Tail(dirs))

(***************************************************************************)
(* str.format with keyword arguments only, as CPython computes it, left to *)
(* right: "{{" and                                                         *)
(* "}}" are escapes, a lone brace is a ValueError, a field with an empty   *)
(* or all-digit name indexes the (empty) positional arguments and raises   *)
(* IndexError, any other name is looked up in kwargs and raises KeyError   *)
(* when missing.  The first failure is the one raised.                     *)
(***************************************************************************)
FmtErr(e) == [err |-> e, out |-> <<>>]

RECURSIVE FieldEnd(_, _)
FieldEnd(s, i) ==
    IF i > Len(s) THEN 0
    ELSE IF s[i] \in {"{", "}"} THEN i
    ELSE FieldEnd(s, i + 1)

IsInteger(name) == \A i \in 1..Len(name) : name[i] \in Digits

GetField(name, kwargs) ==
    IF IsInteger(name) THEN FmtErr("IndexError")
    ELSE IF name \in DOMAIN kwargs THEN [err |-> "none", out |-> kwargs[name]]
    ELSE FmtErr("KeyError")

RECURSIVE FormatFrom(_, _, _, _)
FormatFrom(s, i, kwargs, acc) ==
    IF i > Len(s) THEN [err |-> "none", out |-> acc]
    ELSE IF s[i] = "}" THEN
        IF i < Len(s) /\ s[i + 1] = "}"
        THEN FormatFrom(s, i + 2, kwargs, Append(acc, "}"))
        ELSE FmtErr("ValueError")
    ELSE IF s[i] = "{" THEN
        IF i = Len(s) THEN FmtErr("ValueError")
        ELSE IF s[i + 1] = "{"
        THEN FormatFrom(s, i + 2, kwargs, Append(acc, "{"))
        ELSE LET Field(e, got) ==
                     IF e = 0 THEN FmtErr("ValueError")
                     ELSE IF s[e] = "{" THEN FmtErr("ValueError")
                     ELSE IF got.err # "none" THEN got
                     ELSE FormatFrom(s, e + 1, kwargs, acc \o got.out)
                 FieldAt(e) ==
                     Field(e, IF e = 0 THEN FmtErr("ValueError")
                              ELSE GetField(SubSeq(s, i + 1, e - 1), kwargs))
             IN  FieldAt(FieldEnd(s, i + 1))
    ELSE FormatFrom(s, i + 1, kwargs, Append(acc, s[i]))

Format(s, kwargs) == FormatFrom(s, 1, kwargs, <<>>)

NoArgs == <<>>

(***************************************************************************)
(* LocalLoader._escape: re.sub(r'({|})', r'\1\1', data).                   *)
(***************************************************************************)
RECURSIVE _escape(_)
_escape(data) ==
    IF data = <<>> THEN <<>>
    ELSE IF Head(data) \in {"{", "}"}
    THEN <<Head(data), Head(data)>> \o _escape(Tail(data))
    ELSE <<Head(data)>> \o _escape(Tail(data))

\* An escape_callback supplied by the caller of load(): it writes the braces
\* as brackets.
RECURSIVE HostEscape(_)
HostEscape(data) ==
    IF data = <<>> THEN <<>>
    ELSE IF Head(data) = "{" THEN <<"[">> \o HostEscape(Tail(data))
    ELSE IF Head(data) = "}" THEN <<"]">> \o HostEscape(Tail(data))
    ELSE <<Head(data)>> \o HostEscape(Tail(data))

EscapeCallbacks == {"_escape", "host"}

(***************************************************************************)
(* Values a constructor returns, and exceptions.                           *)
(***************************************************************************)
Str(s) == [k |-> "str", v |-> s]
ListOf(items) == [k |-> "list", v |-> items]
LazyLoader(cls, loader, node) ==
    [k |-> "lazy", v |-> [cls |-> cls, loader |-> loader, node |-> node]]
LazyLoaderCollection(sequence) == [k |-> "lazycoll", v |-> sequence]
Raise(exc, info) == [k |-> "error", v |-> <<exc, info>>]

IsError(val) == val.k = "error"
IsLazy(val) == val.k = "lazy"

\* escape_callback(data): both callbacks work on text only.
EscapeCallback(cb, val) ==
    IF val.k # "str" THEN Raise("TypeError", [dir |-> "", name |-> <<>>])
    ELSE IF cb = "_escape" THEN Str(_escape(val.v))
    ELSE Str(HostEscape(val.v))

(***************************************************************************)
(* Nodes and documents.  A tagged node carries the paths the tag is given: *)
(* one for a scalar node, any number for a sequence node.                  *)
(***************************************************************************)
Scalar(x) == [k |-> "scalar", n |-> "", s |-> FALSE, v |-> x]
Anchor(a, x) == [k |-> "anchor", n |-> a, s |-> FALSE, v |-> x]
Alias(a) == [k |-> "alias", n |-> a, s |-> FALSE, v |-> <<>>]
ScalarNode(tag, path) == [k |-> "tag", n |-> tag, s |-> FALSE, v |-> <<path>>]
SequenceNode(tag, paths) == [k |-> "tag", n |-> tag, s |-> TRUE, v |-> paths]

ScalarDoc(node) == [root |-> "scalar", events |-> <<node>>]
ListDoc(nodes) == [root |-> "list", events |-> nodes]

\* yaml_tag of YamlInclude, YamlIncludeRaw, YamlIncludeRawEscape
IncludeTag == "!include:"
RawTag == "!include-raw:"
RawEscapeTag == "!include-raw-escape:"
\* yaml_tag of the DeprecatedTag subclasses
DeprecatedTags == {"!include", "!include-raw", "!include-raw-escape"}
Tags == {IncludeTag, RawTag, RawEscapeTag} \cup DeprecatedTags

\* a variant of DeprecatedTag._new in which !include-raw-escape is replaced
\* by !include-raw:
NewTagUnescaped(tag) ==
    CASE tag = "!include" -> IncludeTag
      [] tag = "!include-raw" -> RawTag
      [] tag = "!include-raw-escape" -> RawTag
      [] OTHER -> tag

\* DeprecatedTag._new
NewTag(tag) ==
    CASE tag = "!include" -> IncludeTag
      [] tag = "!include-raw" -> RawTag
      [] tag = "!include-raw-escape" -> RawEscapeTag
      [] OTHER -> tag

(***************************************************************************)
(* The file system the loader reads: (directory, file name) -> the text    *)
(* of the file and the document a YAML parser reads from that text.        *)
(***************************************************************************)
File(text, doc) == [text |-> text, yaml |-> doc]
TextFile(text) == File(text, ScalarDoc(Scalar(text)))

Files ==
    (<<"A", <<"v">>>> :> TextFile(<<"a", "{">>))
 @@ (<<"B", <<"v">>>> :> TextFile(<<"b", "}">>))
 @@ (<<"D", <<"0">>>> :> TextFile(<<"d", "{", "v", "}">>))
 @@ (<<".", <<"0">>>> :> TextFile(<<"c">>))
 @@ (<<".", <<"{", "{">>>> :> TextFile(<<"e">>))
 @@ (<<"D", <<"v", "0">>>> :>
        File(<<"&", "a", " ", "x">>, ScalarDoc(Anchor("a", <<"x">>))))
 @@ (<<"D", <<"0", "v">>>> :>
        File(<<"*", "a">>, ScalarDoc(Alias("a"))))
 @@ (<<"D", <<"0", "0">>>> :>
        File(<<"-", "v", "0", "\n", "-", "0", "v">>,
             ListDoc(<<ScalarNode(IncludeTag, <<"v", "0">>),
                       ScalarNode(IncludeTag, <<"0", "v">>)>>)))
 @@ (<<"D", <<"v", "v">>>> :>
        File(<<"!", "e", " ", "v">>,
             ScalarDoc(ScalarNode(RawEscapeTag, <<"v">>))))

\* os.path.join(dirname, filename); a bare file name has no directory part
join(dirname, filename) == [dir |-> dirname, name |-> filename]
Bare(filename) == [dir |-> "", name |-> filename]

\* the directory a path is looked up in: a bare name is relative to the
\* working directory of the process
DirOf(path) == IF path.dir = "" THEN "." ELSE path.dir

\* os.path.isfile(candidate)
isfile(candidate) == <<DirOf(candidate), candidate.name>> \in DOMAIN Files

\* os.path.normpath on the directories the model uses
normpath(p) ==
    CASE p = "" -> "."
      [] p = "A/" -> "A"
      [] p = "./B" -> "B"
      [] OTHER -> p

\* os.path.dirname(stream.name): a stream name is its path components
dirname(name) == IF Len(name) < 2 THEN "" ELSE name[1]

(***************************************************************************)
(* LocalLoader.__init__: the search path is the caller's directories in    *)
(* the caller's order, then the directory of the stream when the stream    *)
(* has a name, then the current directory.                                 *)
(***************************************************************************)
LocalLoaderInit(kw_search_path, kw_escape_callback, stream_name) ==
    [search_path |->
        [i \in 1..Len(kw_search_path) |-> normpath(kw_search_path[i])]
        \o (IF stream_name # <<>>
            THEN <<normpath(dirname(stream_name))>> ELSE <<>>)
        \o <<normpath(".")>>,
     escape_callback |-> kw_escape_callback]

\* functools.partial(cls.yaml_loader, search_path=loader.search_path) on the
\* contents of an included file: a string has no name, no escape_callback
\* is passed
NestedLoader(loader) == LocalLoaderInit(loader.search_path, "_escape", <<>>)

(***************************************************************************)
(* YamlInclude._find_file                                                  *)
(***************************************************************************)
RECURSIVE FindLast(_, _)
FindLast(filename, search_path) ==
    IF search_path = <<>> THEN Bare(filename)
    ELSE LET candidate == join(search_path[Len(search_path)], filename)
         IN  IF isfile(candidate) THEN candidate
             ELSE FindLast(filename, SubSeq(search_path, 1, Len(search_path) - 1))

RECURSIVE _find_file(_, _)
_find_file(filename, search_path) ==
    IF search_path = <<>> THEN Bare(filename)
    ELSE LET candidate == join(Head(search_path), filename)
         IN  IF isfile(candidate) THEN candidate
             ELSE _find_file(filename, Tail(search_path))

LogRecord(level, msg, arg) == [level |-> level, msg |-> msg, arg |-> arg]
Returned(val, records) == [val |-> val, log |-> records]

\* YamlInclude._lazy_load
_lazy_load(cls, loader, node_str) == LazyLoader(cls, loader, node_str)

\* a variant of _open_file in which the failure to open a file is raised
\* without the record of the search path
OpenUnlogged(cls, loader, node_str) ==
    LET Open(fmt, filename) ==
            IF fmt.err = "KeyError"
            THEN Returned(_lazy_load(cls, loader, node_str), <<>>)
            ELSE IF fmt.err # "none"
            THEN Returned(Raise(fmt.err, Bare(node_str)), <<>>)
            ELSE IF isfile(filename)
            THEN Returned(
                   Str(Files[<<DirOf(filename), filename.name>>].text), <<>>)
            ELSE Returned(Raise("IOError", filename), <<>>)
    IN  Open(Format(node_str, NoArgs), _find_file(node_str, loader.search_path))

(***************************************************************************)
(* YamlInclude._open_file: the path is lazy when formatting it with no     *)
(* arguments raises KeyError; any other exception of format() escapes.     *)
(***************************************************************************)
_open_file(cls, loader, node_str) ==
    LET Open(fmt, filename) ==
            IF fmt.err = "KeyError"
            THEN Returned(_lazy_load(cls, loader, node_str), <<>>)
            ELSE IF fmt.err # "none"
            THEN Returned(Raise(fmt.err, Bare(node_str)), <<>>)
            ELSE IF isfile(filename)
            THEN Returned(
                   Str(Files[<<DirOf(filename), filename.name>>].text), <<>>)
            ELSE Returned(
                   Raise("IOError", filename),
                   <<LogRecord("error",
                       "Failed to include file using search path",
                       JoinColon(loader.search_path))>>)
    IN  Open(Format(node_str, NoArgs), _find_file(node_str, loader.search_path))

(***************************************************************************)
(* YamlIncludeRaw.from_yaml (YamlInclude.from_yaml with _from_file being   *)
(* _open_file): a scalar node is one file; a sequence node reads every     *)
(* path in list order, the first exception ending the read.                *)
(***************************************************************************)
RECURSIVE ReadContents(_, _, _, _)
ReadContents(cls, loader, paths, acc) ==
    IF paths = <<>> THEN acc
    ELSE LET Read(r) ==
                 IF IsError(r.val)
                 THEN [items |-> acc.items, log |-> acc.log \o r.log, exc |-> r.val]
                 ELSE ReadContents(cls, loader, Tail(paths),
                        [items |-> Append(acc.items, r.val),
                         log |-> acc.log \o r.log, exc |-> None])
         IN  Read(_open_file(cls, loader, Head(paths)))

\* the end of YamlInclude.from_yaml for a sequence node
JoinContentsTrailing(contents) ==
    IF \E i \in 1..Len(contents) : IsLazy(contents[i])
    THEN LazyLoaderCollection(contents)
    ELSE IF \E i \in 1..Len(contents) : contents[i].k # "str"
    THEN Raise("TypeError", Bare(<<>>))
    ELSE Str(Join([i \in 1..Len(contents) |-> contents[i].v])
             \o (IF contents = <<>> THEN <<>> ELSE <<"\n">>))

JoinContents(contents) ==
    IF \E i \in 1..Len(contents) : IsLazy(contents[i])
    THEN LazyLoaderCollection(contents)
    ELSE IF \E i \in 1..Len(contents) : contents[i].k # "str"
    THEN Raise("TypeError", Bare(<<>>))
    ELSE Str(Join([i \in 1..Len(contents) |-> contents[i].v]))

YamlIncludeRaw_from_yaml(loader, node) ==
    IF ~node.s THEN _open_file(RawTag, loader, node.v[1])
    ELSE LET Joined(read) ==
                 IF read.exc # None THEN Returned(read.exc, read.log)
                 ELSE Returned(JoinContents(read.items), read.log)
         IN  Joined(ReadContents(RawTag, loader, node.v,
                        [items |-> <<>>, log |-> <<>>, exc |-> None]))

(***************************************************************************)
(* YamlIncludeRawEscape.from_yaml: a LazyLoader is returned as it is, with *)
(* a warning; anything else goes through the loader's escape_callback.     *)
(***************************************************************************)
\* a variant that passes the text through the escape_callback a second time
EscapeAgain(loader, data) ==
    IF IsError(data.val) THEN data
    ELSE IF IsLazy(data.val)
    THEN Returned(data.val,
            Append(data.log, LogRecord("warning", "Replacing tag", <<RawEscapeTag, RawTag>>)))
    ELSE Returned(EscapeCallback(loader.escape_callback,
                    EscapeCallback(loader.escape_callback, data.val)), data.log)

EscapeUnlessLazy(loader, data) ==
    IF IsError(data.val) THEN data
    ELSE IF IsLazy(data.val)
    THEN Returned(data.val,
            Append(data.log, LogRecord("warning", "Replacing tag", <<RawEscapeTag, RawTag>>)))
    ELSE Returned(EscapeCallback(loader.escape_callback, data.val), data.log)

YamlIncludeRawEscape_from_yaml(loader, node) ==
    EscapeUnlessLazy(loader, YamlIncludeRaw_from_yaml(loader, node))

(***************************************************************************)
(* DeprecatedTag.from_yaml: one warning, then the replacement's from_yaml. *)
(***************************************************************************)
Deprecation(tag) ==
    IF tag \in DeprecatedTags
    THEN <<LogRecord("warning", "tag is deprecated", <<tag, NewTag(tag)>>)>>
    ELSE <<>>

\* from_yaml of the two raw tags and of their deprecated spellings
Raw_from_yaml(tag, loader, node) ==
    LET Warned(r) == Returned(r.val, Deprecation(tag) \o r.log)
    IN  Warned(IF NewTag(tag) = RawTag
               THEN YamlIncludeRaw_from_yaml(loader, node)
               ELSE YamlIncludeRawEscape_from_yaml(loader, node))

(***************************************************************************)
(* The anchor table.  LocalAnchorLoader.anchors is one dictionary of the   *)
(* class; every loader's self.anchors is that dictionary.                  *)
(***************************************************************************)
Defined(table, a) == \E e \in table : e.name = a
Lookup(table, a) == (CHOOSE e \in table : e.name = a).node

\* a variant of reset_anchors that leaves the table as it is
KeepAnchors(table) == table

\* LocalAnchorLoader.reset_anchors: cls.anchors = {}
reset_anchors(table) == {}

\* a variant of LocalAnchorLoader.__init__ that keeps for the new loader
\* the table of the loader that asked for it
CreatorAnchors(class_anchors, creator_anchors) == creator_anchors

\* LocalAnchorLoader.__init__: self.anchors = LocalAnchorLoader.anchors, the
\* table of the class as it is when the loader is made, whatever the table
\* of the loader that asked for it
LocalAnchorLoader_init(class_anchors, creator_anchors) == class_anchors

\* a variant of compose_document that, like yaml.Composer's, forgets the
\* anchors at the end of the document
ForgetAnchors(table) == {}

\* LocalAnchorLoader.compose_document: the anchors are not reset at the end
\* of the document
compose_document(table) == table

\* Composer.compose_node on one event, as compose_document calls it
compose_node(table, event) ==
    IF event.k = "alias"
    THEN IF Defined(table, event.n)
         THEN [exc |-> None, table |-> table, node |-> Lookup(table, event.n)]
         ELSE [exc |-> Raise("ComposerError: found undefined alias",
                             Bare(<<event.n>>)),
               table |-> table, node |-> event]
    ELSE IF event.k = "anchor"
    THEN IF Defined(table, event.n)
         THEN [exc |-> Raise("ComposerError: found duplicate anchor",
                             Bare(<<event.n>>)),
               table |-> table, node |-> event]
         ELSE [exc |-> None,
               table |-> table \cup {[name |-> event.n, node |-> event]},
               node |-> event]
    ELSE [exc |-> None, table |-> table, node |-> event]

(***************************************************************************)
(* Loaders at work.  yaml.load composes the whole document, then           *)
(* constructs its nodes in order; an include tag met while constructing    *)
(* starts a nested yaml.load on the contents of the file.                  *)
(***************************************************************************)
Frame(role, doc, loader) ==
    [role |-> role, root |-> doc.root, events |-> doc.events,
     nodes |-> <<>>, phase |-> "compose", pos |-> 1,
     out |-> <<>>, acc |-> <<>>, loader |-> loader]

Top == stack[Len(stack)]
SetTop(f) == [stack EXCEPT ![Len(stack)] = f]

\* yaml.load(contents, ...): the document a parser reads from the text
Parse(contents) ==
    Files[CHOOSE key \in DOMAIN Files : Files[key].text = contents].yaml

(***************************************************************************)
(* yaml.load in one go: the value a loader returns for a document, the     *)
(* anchor table it leaves and the records it logs.  The actions below take *)
(* the same steps one at a time.                                           *)
(***************************************************************************)
Outcome(val, table, records) == [val |-> val, table |-> table, log |-> records]

RECURSIVE ComposeAll(_, _, _)
ComposeAll(events, table, nodes) ==
    IF events = <<>> THEN [exc |-> None, table |-> table, nodes |-> nodes]
    ELSE LET r == compose_node(table, Head(events))
         IN  IF r.exc # None
             THEN [exc |-> r.exc, table |-> table, nodes |-> nodes]
             ELSE ComposeAll(Tail(events), r.table, Append(nodes, r.node))

RECURSIVE yaml_load(_, _, _)
RECURSIVE ConstructAll(_, _, _, _, _)
RECURSIVE IncludeAll(_, _, _, _, _)

\* YamlInclude.from_yaml on the paths not yet read
IncludeAll(node, loader, table, acc, records) ==
    IF Len(acc) < Len(node.v)
    THEN LET r == _open_file(IncludeTag, loader, node.v[Len(acc) + 1])
         IN  IF IsError(r.val) THEN Outcome(r.val, table, records \o r.log)
             ELSE IF IsLazy(r.val)
             THEN IncludeAll(node, loader, table, Append(acc, r.val), records)
             ELSE LET sub == yaml_load(Parse(r.val.v), NestedLoader(loader), table)
                  IN  IF IsError(sub.val)
                      THEN Outcome(sub.val, sub.table, records \o sub.log)
                      ELSE IncludeAll(node, loader, sub.table,
                                      Append(acc, sub.val), records \o sub.log)
    ELSE Outcome(IF node.s THEN JoinContents(acc) ELSE acc[1], table, records)

\* construct_document on the nodes not yet constructed
ConstructAll(nodes, loader, table, out, records) ==
    IF nodes = <<>> THEN Outcome(ListOf(out), table, records)
    ELSE LET node == Head(nodes)
             r == IF node.k # "tag" THEN Outcome(Str(node.v), table, <<>>)
                  ELSE IF NewTag(node.n) = IncludeTag
                  THEN IncludeAll(node, loader, table, <<>>, Deprecation(node.n))
                  ELSE LET raw == Raw_from_yaml(node.n, loader, node)
                       IN  Outcome(raw.val, table, raw.log)
         IN  IF IsError(r.val) THEN Outcome(r.val, r.table, records \o r.log)
             ELSE ConstructAll(Tail(nodes), loader, r.table,
                               Append(out, r.val), records \o r.log)

yaml_load(doc, loader, table) ==
    LET composed == ComposeAll(doc.events, table, <<>>)
    IN  IF composed.exc # None THEN Outcome(composed.exc, composed.table, <<>>)
        ELSE LET c == ConstructAll(composed.nodes, loader, composed.table, <<>>, <<>>)
             IN  IF IsError(c.val) THEN c
                 ELSE Outcome(IF doc.root = "scalar" THEN c.val.v[1] ELSE c.val,
                              c.table, c.log)

\* the keyword arguments of load() and the name of its stream
LoadArgs(kw_search_path, kw_escape_callback, stream_name) ==
    [search_path |-> kw_search_path, escape_callback |-> kw_escape_callback,
     stream_name |-> stream_name]
Call(op, doc, kw, loader, args) ==
    [op |-> op, doc |-> doc, kw |-> kw, loader |-> loader, args |-> args]
NoCall == Call("none", ListDoc(<<>>), LoadArgs(<<>>, "_escape", <<>>),
               LocalLoaderInit(<<>>, "_escape", <<>>), NoArgs)

\* an exception leaves every loader at work
Abort(exc, records) ==
    /\ stack' = <<>>
    /\ result' = exc
    /\ log' = log \o records

\* load(stream, **kwargs)
Load(doc, kw_search_path, kw_escape_callback, stream_name) ==
    /\ stack = <<>>
    /\ anchors' = reset_anchors(anchors)
    /\ sessionDefs' = {}
    /\ stack' = <<Frame("load", doc,
                    LocalLoaderInit(kw_search_path, kw_escape_callback, stream_name))>>
    /\ call' = Call("load", doc,
                    LoadArgs(kw_search_path, kw_escape_callback, stream_name),
                    LocalLoaderInit(kw_search_path, kw_escape_callback, stream_name),
                    NoArgs)
    /\ result' = None
    /\ log' = <<>>
    /\ UNCHANGED <<held, created, mapVars, registryVars, helperVars>>

\* compose_document: self.compose_node(None, None), one event at a time
ComposeStep ==
    /\ stack # <<>>
    /\ Top.phase = "compose"
    /\ Len(Top.nodes) < Len(Top.events)
    /\ LET event == Top.events[Len(Top.nodes) + 1]
           r == compose_node(anchors, event)
       IN  IF r.exc # None
           THEN /\ Abort(r.exc, <<>>)
                /\ UNCHANGED <<anchors, sessionDefs>>
           ELSE /\ anchors' = r.table
                /\ sessionDefs' =
                     IF event.k = "anchor"
                     THEN sessionDefs \cup {[name |-> event.n, node |-> event]}
                     ELSE sessionDefs
                /\ stack' = SetTop([Top EXCEPT !.nodes = Append(@, r.node)])
                /\ UNCHANGED <<result, log>>
    /\ UNCHANGED <<held, call, created, mapVars, registryVars, helperVars>>

\* compose_document returns: the loader goes on to construct the document
ComposeDone ==
    /\ stack # <<>>
    /\ Top.phase = "compose"
    /\ Len(Top.nodes) = Len(Top.events)
    /\ anchors' = compose_document(anchors)
    /\ stack' = SetTop([Top EXCEPT !.phase = "construct"])
    /\ UNCHANGED <<result, held, log, call, created, sessionDefs, mapVars, registryVars, helperVars>>

\* YamlInclude.from_yaml, one step of it: _from_file on the next path, or
\* the return once every path is done
IncludeStep(node) ==
    LET done == Len(Top.acc)
        dep == IF done = 0 THEN Deprecation(node.n) ELSE <<>>
    IN  IF done < Len(node.v)
        THEN LET r == _open_file(IncludeTag, Top.loader, node.v[done + 1])
             IN  IF IsError(r.val) THEN Abort(r.val, dep \o r.log)
                 ELSE IF IsLazy(r.val)
                 THEN /\ stack' = SetTop([Top EXCEPT !.acc = Append(@, r.val)])
                      /\ log' = log \o dep
                      /\ UNCHANGED result
                 ELSE /\ stack' = Append(stack,
                            Frame("include", Parse(r.val.v), NestedLoader(Top.loader)))
                      /\ log' = log \o dep
                      /\ UNCHANGED result
        ELSE LET val == IF node.s THEN JoinContents(Top.acc) ELSE Top.acc[1]
             IN  IF IsError(val) THEN Abort(val, dep)
                 ELSE /\ stack' = SetTop([Top EXCEPT !.out = Append(@, val),
                                                     !.acc = <<>>,
                                                     !.pos = @ + 1])
                      /\ log' = log \o dep
                      /\ UNCHANGED result

\* construct_document, one node at a time
ConstructStep ==
    /\ stack # <<>>
    /\ Top.phase = "construct"
    /\ Top.pos <= Len(Top.nodes)
    /\ LET node == Top.nodes[Top.pos]
       IN  IF node.k # "tag"
           THEN /\ stack' = SetTop([Top EXCEPT !.out = Append(@, Str(node.v)),
                                               !.pos = @ + 1])
                /\ UNCHANGED <<result, log>>
           ELSE IF NewTag(node.n) = IncludeTag
           THEN IncludeStep(node)
           ELSE LET r == Raw_from_yaml(node.n, Top.loader, node)
                IN  IF IsError(r.val) THEN Abort(r.val, r.log)
                    ELSE /\ stack' = SetTop([Top EXCEPT !.out = Append(@, r.val),
                                                        !.pos = @ + 1])
                         /\ log' = log \o r.log
                         /\ UNCHANGED result
    /\ UNCHANGED <<anchors, held, call, created, sessionDefs, mapVars, registryVars, helperVars>>

\* the loader has constructed its document: yaml.load returns it, to the
\* include that asked for it or to the caller of load() or format()
ConstructDone ==
    /\ stack # <<>>
    /\ Top.phase = "construct"
    /\ Top.pos > Len(Top.nodes)
    /\ LET val == IF Top.root = "scalar" THEN Top.out[1] ELSE ListOf(Top.out)
       IN  IF Len(stack) > 1
           THEN /\ stack' = [SubSeq(stack, 1, Len(stack) - 1)
                               EXCEPT ![Len(stack) - 1].acc = Append(@, val)]
                /\ UNCHANGED <<result, held, created>>
           ELSE /\ stack' = <<>>
                /\ result' = val
                /\ IF Top.role = "load" /\ val.k \in {"lazy", "lazycoll"}
                   THEN /\ held' = val
                        /\ created' = [lazy |-> val, doc |-> call.doc,
                                       table |-> anchors]
                   ELSE UNCHANGED <<held, created>>
    /\ UNCHANGED <<anchors, log, call, sessionDefs, mapVars, registryVars, helperVars>>

\* the first LazyLoader of a list that load() returned
FirstLazy(items) ==
    items[CHOOSE i \in 1..Len(items) :
             /\ IsLazy(items[i])
             /\ \A j \in 1..(i - 1) : ~IsLazy(items[j])]

\* the caller of load() keeps, of the list it got, the first LazyLoader, to
\* format it later
Hold ==
    /\ stack = <<>>
    /\ call.op = "load"
    /\ result.k = "list"
    /\ \E i \in 1..Len(result.v) : IsLazy(result.v[i])
    /\ held' = FirstLazy(result.v)
    /\ created' = [lazy |-> FirstLazy(result.v), doc |-> call.doc,
                   table |-> anchors]
    /\ UNCHANGED <<anchors, stack, result, log, call, sessionDefs, mapVars,
                   registryVars, helperVars>>

\* LazyLoader.format: self._node.value = self._node.value.format(...)
FormatInPlace(lazy, value) == [lazy EXCEPT !.v.node = value]

\* LazyLoader.format(**kwargs) on the held object
Resolve(kwargs) ==
    /\ stack = <<>>
    /\ IsLazy(held)
    /\ LET fmt == Format(held.v.node, kwargs)
           doc == ScalarDoc(ScalarNode(held.v.cls, fmt.out))
       IN  /\ call' = Call("format", doc, call.kw, held.v.loader, kwargs)
           /\ IF fmt.err # "none"
              THEN /\ stack' = <<>>
                   /\ result' = Raise(fmt.err, Bare(held.v.node))
                   /\ UNCHANGED held
              ELSE /\ held' = FormatInPlace(held, fmt.out)
                   /\ stack' = <<[Frame("format", doc, held.v.loader)
                                    EXCEPT !.nodes = doc.events,
                                           !.phase = "construct"]>>
                   /\ result' = None
    /\ anchors' = LocalAnchorLoader_init(anchors, created.table)
    /\ log' = <<>>
    /\ UNCHANGED <<created, sessionDefs, mapVars, registryVars, helperVars>>

\* item.format(*args, **kwargs) of a member of a LazyLoaderCollection: the
\* path of a LazyLoader is formatted, and so is a member that is text; any
\* other member has no format()
FormatMember(item, kwargs) ==
    IF item.k = "str" THEN Format(item.v, kwargs)
    ELSE IF item.k = "lazy" THEN Format(item.v.node, kwargs)
    ELSE [err |-> "AttributeError", out |-> <<>>]

\* u'\n'.join(...) of what the members format to: text only
JoinTexts(texts) ==
    IF \E i \in 1..Len(texts) : texts[i].k # "str"
    THEN Raise("TypeError", Bare(<<>>))
    ELSE Str(Join([i \in 1..Len(texts) |-> texts[i].v]))

\* LazyLoaderCollection.format(**kwargs) on the held object:
\* u'\n'.join(item.format(*args, **kwargs) for item in self._data)
FormatCollection(kwargs) ==
    /\ stack = <<>>
    /\ held.k = "lazycoll"
    /\ stack' = <<[Frame("format_collection", created.doc, call.loader)
                     EXCEPT !.phase = "join"]>>
    /\ call' = Call("format_collection", created.doc, call.kw, call.loader,
                    kwargs)
    /\ result' = None
    /\ log' = <<>>
    /\ UNCHANGED <<anchors, held, created, sessionDefs, mapVars, registryVars,
                   helperVars>>

\* the generator of LazyLoaderCollection.format, one member at a time in
\* list order: item.format(...), where a LazyLoader gets its path formatted
\* in place and then loads it with the from_yaml of its tag; the first
\* exception ends the call, and join puts together what every member gave
FormatCollectionStep ==
    /\ stack # <<>>
    /\ Top.phase = "join"
    /\ IF Len(Top.acc) = Len(held.v)
       THEN /\ stack' = <<>>
            /\ result' = JoinTexts(Top.acc)
            /\ UNCHANGED <<held, log>>
       ELSE LET pos == Len(Top.acc) + 1
                item == held.v[pos]
                Opened(r) ==
                    IF IsError(r.val) THEN Abort(r.val, r.log)
                    ELSE IF IsLazy(r.val)
                    THEN /\ stack' = SetTop([Top EXCEPT !.acc = Append(@, r.val)])
                         /\ UNCHANGED <<result, log>>
                    ELSE /\ stack' = Append(stack,
                               Frame("include", Parse(r.val.v),
                                     NestedLoader(item.v.loader)))
                         /\ UNCHANGED <<result, log>>
                Read(r) ==
                    IF IsError(r.val) THEN Abort(r.val, r.log)
                    ELSE /\ stack' = SetTop([Top EXCEPT !.acc = Append(@, r.val)])
                         /\ log' = log \o r.log
                         /\ UNCHANGED result
                Then(fmt) ==
                    IF fmt.err # "none"
                    THEN /\ Abort(Raise(fmt.err,
                                        Bare(IF item.k = "lazy" THEN item.v.node
                                             ELSE <<>>)), <<>>)
                         /\ UNCHANGED held
                    ELSE IF item.k = "str"
                    THEN /\ stack' = SetTop([Top EXCEPT
                                               !.acc = Append(@, Str(fmt.out))])
                         /\ UNCHANGED <<held, result, log>>
                    ELSE /\ held' = [held EXCEPT
                                       !.v[pos] = FormatInPlace(item, fmt.out)]
                         /\ IF item.v.cls = IncludeTag
                            THEN Opened(_open_file(IncludeTag, item.v.loader,
                                                   fmt.out))
                            ELSE Read(Raw_from_yaml(item.v.cls, item.v.loader,
                                         ScalarNode(item.v.cls, fmt.out)))
            IN  Then(FormatMember(item, call.args))
    /\ UNCHANGED <<anchors, call, created, sessionDefs, mapVars, registryVars,
                   helperVars>>

(***************************************************************************)
(* Mappings.  A mapping node is the sequence of its (key, value) pairs in  *)
(* source order; a value is a scalar or a nested mapping node.  A          *)
(* constructed OrderedDict is the sequence of its items in iteration       *)
(* order.                                                                  *)
(***************************************************************************)
KeyOrder == <<"a", "b", "c", "d">>
Keys == {KeyOrder[i] : i \in 1..MaxMapLen}
InnerKeys == {"a", "b"}
\* the rank of a key in the order of Python's string comparison
Rank(key) == CHOOSE i \in 1..Len(KeyOrder) : KeyOrder[i] = key

\* a value of a mapping: an integer n, or a mapping of (key, value) pairs v
Num(x) == [k |-> "int", v |-> <<>>, n |-> x]
Map(pairs) == [k |-> "map", v |-> pairs, n |-> 0]

KeysOf(pairs) == [i \in 1..Len(pairs) |-> pairs[i][1]]
HasKey(pairs, key) == \E i \in 1..Len(pairs) : pairs[i][1] = key
Distinct(seq) == \A i, j \in 1..Len(seq) : seq[i] = seq[j] => i = j

\* OrderedDict.__setitem__: a new key goes last, a known key keeps its place
SetItem(pairs, key, value) ==
    IF HasKey(pairs, key)
    THEN [i \in 1..Len(pairs) |->
            IF pairs[i][1] = key THEN <<key, value>> ELSE pairs[i]]
    ELSE Append(pairs, <<key, value>>)

\* OrderedConstructor.construct_yaml_map: mapping[key] = value for every
\* (key_node, value_node) of node.value in order, nested mappings likewise
RECURSIVE ConstructPairs(_, _)
RECURSIVE construct_yaml_map(_)
ConstructPairs(pairs, mapping) ==
    IF pairs = <<>> THEN mapping
    ELSE LET key == Head(pairs)[1]
             value_node == Head(pairs)[2]
             value == IF value_node.k = "map"
                      THEN Map(construct_yaml_map(value_node.v))
                      ELSE value_node
         IN  ConstructPairs(Tail(pairs), SetItem(mapping, key, value))

construct_yaml_map(node_value) == ConstructPairs(node_value, <<>>)

\* sorted(mapping.items()): insertion sort on the keys
RECURSIVE SortedInsert(_, _)
SortedInsert(sorted, item) ==
    IF sorted = <<>> THEN <<item>>
    ELSE IF Rank(item[1]) < Rank(Head(sorted)[1]) THEN <<item>> \o sorted
    ELSE <<Head(sorted)>> \o SortedInsert(Tail(sorted), item)

RECURSIVE Sorted(_)
Sorted(items) ==
    IF items = <<>> THEN <<>>
    ELSE SortedInsert(Sorted(SubSeq(items, 1, Len(items) - 1)), items[Len(items)])

\* OrderedRepresenter.represent_yaml_mapping: BaseRepresenter.represent_mapping
\* sorts the items of the mapping by key (yaml.dump's sort_keys is left at
\* its default) and represents every value, nested mappings likewise
RECURSIVE represent_yaml_mapping(_)
represent_yaml_mapping(mapping) ==
    LET items == Sorted(mapping)
    IN  [i \in 1..Len(items) |->
            <<items[i][1],
              IF items[i][2].k = "map"
              THEN Map(represent_yaml_mapping(items[i][2].v))
              ELSE items[i][2]>>]

\* the emitter: one line per entry, the entries of a nested mapping indented
\* under the line of their key
Line(indent, key, val) == [indent |-> indent, key |-> key, val |-> val]
RECURSIVE Emit(_, _)
Emit(node_value, indent) ==
    IF node_value = <<>> THEN <<>>
    ELSE LET key == Head(node_value)[1]
             val == Head(node_value)[2]
         IN  (IF val.k = "map" /\ val.v # <<>>
              THEN <<Line(indent, key, Map(<<>>))>> \o Emit(val.v, indent + 1)
              ELSE IF val.k = "map"
              THEN <<Line(indent, key, [k |-> "flow", v |-> <<>>, n |-> 0])>>
              ELSE <<Line(indent, key, val)>>)
             \o Emit(Tail(node_value), indent)

\* the parser on the emitted lines: the lines of a block at one indent
RECURSIVE BlockLen(_, _)
BlockLen(lines, indent) ==
    IF lines = <<>> \/ Head(lines).indent < indent THEN 0
    ELSE 1 + BlockLen(Tail(lines), indent)

RECURSIVE ParseBlock(_, _)
ParseBlock(lines, indent) ==
    IF lines = <<>> THEN <<>>
    ELSE LET first == Head(lines)
             inner == BlockLen(Tail(lines), indent + 1)
         IN  IF first.val.k = "map"
             THEN <<<<first.key,
                      Map(ParseBlock(SubSeq(lines, 2, 1 + inner), indent + 1))>>>>
                  \o ParseBlock(SubSeq(lines, 2 + inner, Len(lines)), indent)
             ELSE IF first.val.k = "flow"
             THEN <<<<first.key, Map(<<>>)>>>> \o ParseBlock(Tail(lines), indent)
             ELSE <<<<first.key, first.val>>>> \o ParseBlock(Tail(lines), indent)

\* dump(data): the text yaml.dump writes with LocalDumper
dump(data) == Emit(represent_yaml_mapping(data), 0)

\* the mapping node a loader composes from dumped text
ComposeMapping(text) == ParseBlock(text, 0)

MapConstruct ==
    /\ mdata = None
    /\ mdata' = Map(construct_yaml_map(mnode))
    /\ UNCHANGED <<mnode, mdump, mreload, loaderVars, registryVars, helperVars>>

MapDump ==
    /\ mdata # None
    /\ mdump = None
    /\ mdump' = [k |-> "text", v |-> dump(mdata.v)]
    /\ UNCHANGED <<mnode, mdata, mreload, loaderVars, registryVars, helperVars>>

MapReload ==
    /\ mdump # None
    /\ mreload = None
    /\ mreload' = Map(construct_yaml_map(ComposeMapping(mdump.v)))
    /\ UNCHANGED <<mnode, mdata, mdump, loaderVars, registryVars, helperVars>>

(***************************************************************************)
(* The registry: jenkins_jobs/registry.py.                                 *)
(* A component is a name (text) or a dict of one item, name: arguments.    *)
(* Values have one shape: text in s, an integer in n, dict items in items. *)
(***************************************************************************)
Text(s) == [k |-> "str", s |-> s, n |-> 0, items |-> <<>>]
Number(x) == [k |-> "int", s |-> <<>>, n |-> x, items |-> <<>>]
Dict(items) == [k |-> "dict", s |-> <<>>, n |-> 0, items |-> items]

\* bool(value): an empty dict, an empty text and 0 are false
Truthy(value) ==
    CASE value.k = "str" -> value.s # <<>>
      [] value.k = "int" -> value.n # 0
      [] OTHER -> value.items # <<>>

\* a variant: the message does not have the name
JenkinsJobsExceptionOfType(msg, name, component_type) ==
    Raise("JenkinsJobsException", <<msg, <<>>, component_type>>)

\* raise JenkinsJobsException(msg.format(name, component_type))
JenkinsJobsException(msg, name, component_type) ==
    Raise("JenkinsJobsException", <<msg, name, component_type>>)

\* ModuleRegistry.__init__: the modules loaded, by component type, with the
\* component_list_type of each
modules_by_component_type ==
    [parameter |-> "parameters", trigger |-> "triggers",
     publisher |-> "publishers", builder |-> "builders"]

ModuleEp(name, func) == [name |-> name, func |-> func]

\* the functions of a module whose docstring starts with "yaml: <name>"
func_eps(component_list_type) ==
    CASE component_list_type = "parameters" ->
            <<ModuleEp(<<"r", "u", "n">>, "run_param"),
              ModuleEp(<<"t", "e", "x", "t">>, "text_param")>>
      [] component_list_type = "triggers" ->
            <<ModuleEp(<<"i", "v", "y">>, "ivy"),
              ModuleEp(<<"p", "o", "l", "l", "s", "c", "m">>, "pollscm")>>
      [] component_list_type = "publishers" ->
            <<ModuleEp(<<"s", "c", "p">>, "scp")>>
      [] component_list_type = "builders" ->
            <<ModuleEp(<<"s", "h", "e", "l", "l">>, "shell")>>

\* pkg_resources.iter_entry_points(group='jenkins_jobs.<component_list_type>'):
\* the entry points the installed distributions define explicitly
iter_entry_points(component_list_type) ==
    CASE component_list_type = "parameters" -> <<>>
      [] component_list_type = "triggers" ->
            <<ModuleEp(<<"r", "u", "n">>, "ext_run")>>
      [] component_list_type = "publishers" ->
            <<ModuleEp(<<"s", "c", "p">>, "ext_scp")>>
      [] component_list_type = "builders" -> <<>>

\* a dict of one item
Item(name, value) == Dict(<<<<name, value>>>>)

Macro(component_type, name, body) ==
    [type |-> component_type, name |-> name, body |-> body]

\* the attribute __parser_data of a registry: missing until set_parser_data
\* gives it the macros, by component type and name, each with the
\* components of its body
NoParserData == [set |-> FALSE, macros |-> {}]
ParserData(macros) == [set |-> TRUE, macros |-> macros]

\* the macros of a project
Macros ==
    { Macro("parameter", <<"m">>,
            <<Item(<<"t", "e", "x", "t">>,
                   Dict(<<<<(<<"a">>), Text(<<"{", "v", "}">>)>>,
                          <<(<<"n", "a", "m", "e">>), Number(0)>>>>))>>),
      Macro("parameter", <<"r", "u", "n">>,
            <<Item(<<"t", "e", "x", "t">>,
                   Dict(<<<<(<<"n", "a", "m", "e">>), Text(<<"r">>)>>>>)),
              Item(<<"m">>, Dict(<<<<(<<"v">>), Text(<<"{", "v", "}">>)>>>>))>>),
      Macro("parameter", <<"w">>,
            <<Item(<<"m">>, Dict(<<<<(<<"x">>), Text(<<"{", "v", "}">>)>>>>))>>),
      Macro("trigger", <<"r", "u", "n">>,
            <<Text(<<"i", "v", "y">>),
              Item(<<"i", "v", "y">>,
                   Dict(<<<<(<<"c", "r", "o", "n">>), Text(<<"{", "v", "}">>)>>>>))>>),
      Macro("trigger", <<"t">>,
            <<Text(<<"p", "o", "l", "l", "s", "c", "m">>),
              Text(<<"i", "v", "y">>)>>),
      Macro("trigger", <<"u">>, <<Text(<<"t">>), Text(<<"i", "v", "y">>)>>),
      Macro("publisher", <<"p">>, <<Text(<<"s", "c", "p">>)>>),
      Macro("builder", <<"s">>, <<Text(<<"s", "h", "e", "l", "l">>)>>),
      Macro("builder", <<"c">>,
            <<Text(<<"s", "h", "e", "l", "l">>), Text(<<"c">>)>>),
      Macro("builder", <<"d">>, <<Text(<<"e">>)>>),
      Macro("builder", <<"e">>,
            <<Text(<<"d">>), Text(<<"s", "h", "e", "l", "l">>)>>) }

\* str(value) of a text or of an integer of one digit
DecimalDigits == <<"0", "1", "2", "3", "4", "5", "6", "7", "8", "9">>
str(value) ==
    IF value.k = "str" THEN value.s ELSE <<DecimalDigits[value.n + 1]>>

GetItem(items, key) ==
    items[CHOOSE i \in 1..Len(items) :
              /\ items[i][1] = key
              /\ \A j \in (i + 1)..Len(items) : items[j][1] # key][2]

\* the keyword arguments of format(obj, **paramdict)
KeywordArgs(paramdict) ==
    [name \in {paramdict.items[i][1] : i \in 1..Len(paramdict.items)} |->
        str(GetItem(paramdict.items, name))]

\* the keyword arguments when empty variables are allowed: a name that is
\* missing stands for the empty text
SubStrings(s) == {SubSeq(s, i, j) : i, j \in 1..Len(s)}
OrEmpty(kwargs, s) ==
    [name \in (DOMAIN kwargs) \cup SubStrings(s) |->
        IF name \in DOMAIN kwargs THEN kwargs[name] ELSE <<>>]

Formatted(exc, val) == [exc |-> exc, val |-> val]

\* deep_format of a text: format(obj, **paramdict) takes a mapping only
FormatText(obj, paramdict, allow_empty) ==
    LET Then(r) ==
            IF r.err = "none" THEN Formatted(None, Text(r.out))
            ELSE IF r.err = "KeyError"
            THEN Formatted(Raise("SubstitutionError", <<"parameter missing to format", obj.s, "">>), obj)
            ELSE Formatted(Raise(r.err, <<"", obj.s, "">>), obj)
    IN  IF paramdict.k # "dict"
        THEN Formatted(Raise("TypeError",
                             <<"argument after ** must be a mapping",
                               obj.s, "">>), obj)
        ELSE Then(Format(obj.s, IF allow_empty
                                THEN OrEmpty(KeywordArgs(paramdict), obj.s)
                                ELSE KeywordArgs(paramdict)))

\* jenkins_jobs.formatter.deep_format: every text inside obj is formatted
\* with the values of paramdict, other values are kept as they are
RECURSIVE deep_format(_, _, _)
RECURSIVE FormatItems(_, _, _, _)
FormatItems(items, paramdict, allow_empty, done) ==
    IF items = <<>> THEN Formatted(None, Dict(done))
    ELSE LET Then(r) ==
                 IF r.exc # None THEN r
                 ELSE FormatItems(Tail(items), paramdict, allow_empty,
                                  Append(done, <<Head(items)[1], r.val>>))
         IN  Then(deep_format(Head(items)[2], paramdict, allow_empty))

deep_format(obj, paramdict, allow_empty) ==
    CASE obj.k = "str" -> FormatText(obj, paramdict, allow_empty)
      [] obj.k = "dict" -> FormatItems(obj.items, paramdict, allow_empty, <<>>)
      [] OTHER -> Formatted(None, obj)

\* dispatch, lines 160-172: the name and the arguments of a component
Named(exc, name, component_data) ==
    [exc |-> exc, name |-> name, component_data |-> component_data]

\* a variant: a component that is a simple name takes the template data as
\* its arguments
NameAndTemplateData(component, template_data, allow_empty) ==
    IF component.k = "dict"
    THEN LET item == component.items[1]
             Then(r) == Named(r.exc, item[1],
                              IF r.exc # None THEN item[2] ELSE r.val)
         IN  IF Truthy(template_data)
             THEN Then(deep_format(item[2], template_data, allow_empty))
             ELSE Named(None, item[1], item[2])
    ELSE Named(None, component.s, template_data)

\* a variant: the arguments are never formatted
NameAndWrittenData(component, template_data, allow_empty) ==
    IF component.k = "dict"
    THEN Named(None, component.items[1][1], component.items[1][2])
    ELSE Named(None, component.s, Dict(<<>>))

\* a variant: the arguments are formatted whether there is template data or
\* not
NameAndFormattedData(component, template_data, allow_empty) ==
    IF component.k = "dict"
    THEN LET item == component.items[1]
             Then(r) == Named(r.exc, item[1],
                              IF r.exc # None THEN item[2] ELSE r.val)
         IN  Then(deep_format(item[2], template_data, allow_empty))
    ELSE Named(None, component.s, Dict(<<>>))

NameAndData(component, template_data, allow_empty) ==
    IF component.k = "dict"
    THEN LET item == component.items[1]
             Then(r) == Named(r.exc, item[1],
                              IF r.exc # None THEN item[2] ELSE r.val)
         IN  IF Truthy(template_data)
             THEN Then(deep_format(item[2], template_data, allow_empty))
             ELSE Named(None, item[1], item[2])
    ELSE Named(None, component.s, Dict(<<>>))

\* ModuleRegistry.entry_points_cache.get(component_list_type)
Cached(cache, component_list_type) ==
    \E e \in cache : e.type = component_list_type
CacheGet(cache, component_list_type) ==
    (CHOOSE e \in cache : e.type = component_list_type).eps

EpNames(eps) == {eps[i].name : i \in 1..Len(eps)}
EpFunc(eps, name) == (CHOOSE i \in 1..Len(eps) : eps[i].name = name)

\* dispatch, lines 177-214: the entry points inferred from the functions of
\* the module, then those defined explicitly
module_eps(component_list_type) ==
    func_eps(component_list_type) \o iter_entry_points(component_list_type)

\* dispatch, lines 216-224: eps by name, unless a name comes twice
RECURSIVE CollectEps(_, _)
CollectEps(eps_to_add, eps) ==
    IF eps_to_add = <<>> THEN [dup |-> FALSE, eps |-> eps]
    ELSE IF Head(eps_to_add).name \in EpNames(eps)
    THEN [dup |-> TRUE, eps |-> eps]
    ELSE CollectEps(Tail(eps_to_add), Append(eps, Head(eps_to_add)))

\* dispatch, lines 175-229: the entry points of the component list type,
\* from the cache or discovered and then cached
Eps(exc, eps, cache, built) ==
    [exc |-> exc, eps |-> eps, cache |-> cache, built |-> built]

\* a variant: the entry points are discovered at each call
entry_points_discovered(cache, component_type, component_list_type, name) ==
    LET Then(r) ==
            IF r.dup
            THEN Eps(JenkinsJobsException(
                         "Duplicate entry point found for component type",
                         name, component_type),
                     <<>>, cache, TRUE)
            ELSE Eps(None, r.eps,
                     {e \in cache : e.type # component_list_type}
                        \cup {[type |-> component_list_type, eps |-> r.eps]},
                     TRUE)
    IN  Then(CollectEps(module_eps(component_list_type), <<>>))

\* a variant: the entry points collected before the duplicate are cached
entry_points_kept(cache, component_type, component_list_type, name) ==
    IF Cached(cache, component_list_type)
    THEN Eps(None, CacheGet(cache, component_list_type), cache, FALSE)
    ELSE LET Then(r) ==
                 Eps(IF r.dup
                     THEN JenkinsJobsException(
                              "Duplicate entry point found for component type",
                              name, component_type)
                     ELSE None,
                     r.eps,
                     cache \cup {[type |-> component_list_type,
                                  eps |-> r.eps]},
                     TRUE)
         IN  Then(CollectEps(module_eps(component_list_type), <<>>))

entry_points(cache, component_type, component_list_type, name) ==
    IF Cached(cache, component_list_type)
    THEN Eps(None, CacheGet(cache, component_list_type), cache, FALSE)
    ELSE LET Then(r) ==
                 IF r.dup
                 THEN Eps(JenkinsJobsException(
                              "Duplicate entry point found for component type",
                              name, component_type),
                          <<>>, cache, TRUE)
                 ELSE Eps(None, r.eps,
                          cache \cup {[type |-> component_list_type,
                                       eps |-> r.eps]},
                          TRUE)
         IN  Then(CollectEps(module_eps(component_list_type), <<>>))

\* self.parser_data.get(component_type, {}).get(name)
HasMacro(component_type, name) ==
    \E m \in parser_data.macros : m.type = component_type /\ m.name = name
MacroBody(component_type, name) ==
    (CHOOSE m \in parser_data.macros :
        m.type = component_type /\ m.name = name).body

Dispatched(exc, kind, nd, e, masked, records, body, func) ==
    [exc |-> exc, kind |-> kind, name |-> nd.name,
     component_data |-> nd.component_data, cache |-> e.cache,
     built |-> e.built, masked |-> masked, log |-> records,
     body |-> body, func |-> func]

\* a variant: the component function first, then a macro
FunctionOrMacro(component_type, nd, e, masked) ==
    IF nd.name \in EpNames(e.eps)
    THEN Dispatched(None, "func", nd, e, masked, <<>>, <<>>,
                    e.eps[EpFunc(e.eps, nd.name)].func)
    ELSE IF HasMacro(component_type, nd.name)
    THEN Dispatched(None, "macro", nd, e, masked, <<>>,
                    MacroBody(component_type, nd.name), "")
    ELSE Dispatched(JenkinsJobsException("Unknown entry point or macro",
                                         nd.name, component_type),
                    "raise", nd, e, masked, <<>>, <<>>, "")

\* a variant: the warning is given each time the macro masks an entry point
MacroOrFunctionWarning(component_type, nd, e, masked) ==
    IF HasMacro(component_type, nd.name)
    THEN IF nd.name \in EpNames(e.eps)
         THEN Dispatched(None, "macro", nd, e, masked \cup {nd.name},
                  <<LogRecord("warning",
                              "You have a macro defined for component type that is masking an inbuilt definition",
                              <<nd.name, component_type>>)>>,
                  MacroBody(component_type, nd.name), "")
         ELSE Dispatched(None, "macro", nd, e, masked, <<>>,
                         MacroBody(component_type, nd.name), "")
    ELSE IF nd.name \in EpNames(e.eps)
    THEN Dispatched(None, "func", nd, e, masked, <<>>, <<>>,
                    e.eps[EpFunc(e.eps, nd.name)].func)
    ELSE Dispatched(JenkinsJobsException("Unknown entry point or macro",
                                         nd.name, component_type),
                    "raise", nd, e, masked, <<>>, <<>>, "")

\* dispatch, lines 231-252: a macro first, then a component function
MacroOrFunction(component_type, nd, e, masked) ==
    IF HasMacro(component_type, nd.name)
    THEN IF nd.name \in EpNames(e.eps) /\ nd.name \notin masked
         THEN Dispatched(None, "macro", nd, e, masked \cup {nd.name},
                  <<LogRecord("warning",
                              "You have a macro defined for component type that is masking an inbuilt definition",
                              <<nd.name, component_type>>)>>,
                  MacroBody(component_type, nd.name), "")
         ELSE Dispatched(None, "macro", nd, e, masked, <<>>,
                         MacroBody(component_type, nd.name), "")
    ELSE IF nd.name \in EpNames(e.eps)
    THEN Dispatched(None, "func", nd, e, masked, <<>>, <<>>,
                    e.eps[EpFunc(e.eps, nd.name)].func)
    ELSE Dispatched(JenkinsJobsException("Unknown entry point or macro",
                                         nd.name, component_type),
                    "raise", nd, e, masked, <<>>, <<>>, "")

\* self.parser_data (line 232) of a registry set_parser_data was not called
\* on: the property reads an attribute that is not there
NoParserDataError ==
    Raise("AttributeError",
          <<"'ModuleRegistry' object has no attribute '_ModuleRegistry__parser_data'",
            <<>>, "">>)

\* ModuleRegistry.dispatch up to the loop over the body of a macro or the
\* call of the component function
dispatch(cache, masked, allow_empty, component_type, component, template_data) ==
    IF component_type \notin DOMAIN modules_by_component_type
    THEN Dispatched(JenkinsJobsException("Unknown component type", <<>>,
                                         component_type),
                    "raise", Named(None, <<>>, Dict(<<>>)),
                    Eps(None, <<>>, cache, FALSE), masked, <<>>, <<>>, "")
    ELSE LET WithEps(nd, e) ==
                 IF e.exc # None
                 THEN Dispatched(e.exc, "raise", nd, e, masked, <<>>, <<>>, "")
                 ELSE IF ~parser_data.set
                 THEN Dispatched(NoParserDataError, "raise", nd, e, masked,
                                 <<>>, <<>>, "")
                 ELSE MacroOrFunction(component_type, nd, e, masked)
             WithName(nd) ==
                 IF nd.exc # None
                 THEN Dispatched(nd.exc, "raise", nd,
                                 Eps(None, <<>>, cache, FALSE), masked,
                                 <<>>, <<>>, "")
                 ELSE WithEps(nd, entry_points(cache, component_type,
                                  modules_by_component_type[component_type],
                                  nd.name))
         IN  WithName(NameAndData(component, template_data, allow_empty))

\* a loop over components: the one of gen_xml, or the one over the body of
\* a macro (dispatch, lines 241-245)
Loop(component_type, xml_parent, components, template_data) ==
    [type |-> component_type, parent |-> xml_parent, list |-> components,
     pos |-> 1, template_data |-> template_data]

Advanced(loop) == [loop EXCEPT !.pos = @ + 1]

\* a variant: the body of a macro gets the template data of the call with
\* the arguments of the macro
BodyLoopForwarding(loop, d) ==
    Loop(loop.type, loop.parent, d.body,
         Dict(loop.template_data.items \o d.component_data.items))

\* dispatch, lines 241-245: the loop over the body of the macro, each
\* component dispatched with the same component type and XML parent and with
\* component_data as template data
BodyLoop(loop, d) ==
    Loop(loop.type, loop.parent, d.body, d.component_data)

\* the element a module gives its components as XML parent
XmlParent(component_type) ==
    CASE component_type = "parameter" -> "pdefs"
      [] component_type = "trigger" -> "trig_e"
      [] OTHER -> "xml_parent"

\* a variant: the body of a macro that is being expanded already is not
\* entered again
EnteredOnce(loops, d) ==
    IF \E i \in 2..Len(loops) : loops[i].list = d.body
    THEN Append(SubSeq(loops, 1, Len(loops) - 1), Advanced(loops[Len(loops)]))
    ELSE Append(Append(SubSeq(loops, 1, Len(loops) - 1),
                       Advanced(loops[Len(loops)])),
                BodyLoop(loops[Len(loops)], d))

\* a variant: the body of the macro is dispatched after the loops at work
EnteredLater(loops, d) ==
    <<BodyLoop(loops[Len(loops)], d)>>
        \o Append(SubSeq(loops, 1, Len(loops) - 1), Advanced(loops[Len(loops)]))

\* dispatch, lines 241-245: the loop over the body of the macro runs to its
\* end before the loop that dispatched the macro goes on
Entered(loops, d) ==
    Append(Append(SubSeq(loops, 1, Len(loops) - 1),
                  Advanced(loops[Len(loops)])),
           BodyLoop(loops[Len(loops)], d))

\* func(self, xml_parent, component_data): the call of a component function
FuncCall(func, xml_parent, component_data) ==
    [func |-> func, parent |-> xml_parent, data |-> component_data]

\* bool(value) of a text, an integer or a dict
IsTrue(value) ==
    CASE value.k = "str" -> value.s # <<>>
      [] value.k = "int" -> value.n # 0
      [] OTHER -> value.items # <<>>

HasItem(items, key) == \E i \in 1..Len(items) : items[i][1] = key

MissingAttributeError(name) ==
    Raise("MissingAttributeError", <<"Missing from an instance", name, "">>)
InvalidAttributeError(name) ==
    Raise("InvalidAttributeError", <<"is an invalid value for attribute", name, "">>)

\* what the call of a component function gives: the exception it raises,
\* None when it returns, and the records it logs
Called(exc, records) == [exc |-> exc, log |-> records]

KeyError(key) == Raise("KeyError", <<key, <<>>, "">>)

\* data[key] and data.get(key) of data that is no dict
NotSubscriptable(data) ==
    Raise("TypeError",
          <<IF data.k = "str" THEN "string indices must be integers, not 'str'"
            ELSE "'int' object is not subscriptable", <<>>, "">>)
NoGet(data) ==
    Raise("AttributeError",
          <<IF data.k = "str" THEN "'str' object has no attribute 'get'"
            ELSE "'int' object has no attribute 'get'", <<>>, "">>)

\* parameters.base_param: data['name'] is required, data.get() gives the
\* description and the default
base_param(data) ==
    IF data.k # "dict" THEN Called(NotSubscriptable(data), <<>>)
    ELSE IF ~HasItem(data.items, <<"n", "a", "m", "e">>)
    THEN Called(KeyError("'name'"), <<>>)
    ELSE Called(None, <<>>)

\* parameters.text_param: base_param and nothing else
text_param(data) == base_param(data)

\* parameters.run_param: base_param, then data['project-name']
run_param(data) ==
    IF base_param(data).exc # None THEN base_param(data)
    ELSE IF ~HasItem(data.items, <<"p", "r", "o", "j", "e", "c", "t", "-",
                                   "n", "a", "m", "e">>)
    THEN Called(KeyError("'project-name'"), <<>>)
    ELSE Called(None, <<>>)

\* triggers.ivy: every option is read with data.get and has a default
ivy(data) ==
    IF data.k # "dict" THEN Called(NoGet(data), <<>>) ELSE Called(None, <<>>)

\* triggers.pollscm: 'cron' is required of a dict; data that is no dict is
\* the cron text itself, with a warning (deprecated); a cron that is false
\* and not '' is invalid
pollscm(data) ==
    LET cron == <<"c", "r", "o", "n">>
        Checked(value, records) ==
            IF ~IsTrue(value) /\ value # Text(<<>>)
            THEN Called(InvalidAttributeError(cron), records)
            ELSE Called(None, records)
    IN  IF data.k = "dict"
        THEN IF HasItem(data.items, cron)
             THEN Checked(GetItem(data.items, cron), <<>>)
             ELSE Called(MissingAttributeError(cron), <<>>)
        ELSE Checked(data,
                     <<LogRecord("warning",
                                 "Your pollscm usage is deprecated, please use the syntax described in the documentation instead",
                                 <<<<>>, "">>)>>)

\* func(self, xml_parent, component_data): what the call of a component
\* function gives; the functions of entry points of other distributions
\* are taken by their calls only
Generated(func, component_data) ==
    CASE func = "pollscm" -> pollscm(component_data)
      [] func = "ivy" -> ivy(component_data)
      [] func = "text_param" -> text_param(component_data)
      [] func = "run_param" -> run_param(component_data)
      [] OTHER -> Called(None, <<>>)

\* a variant: dispatch goes on with the next component after an error of the
\* component function
Swallowed(loops, exc) ==
    Append(SubSeq(loops, 1, Len(loops) - 1), Advanced(loops[Len(loops)]))

\* dispatch, lines 246-248: the component function is called in no try
\* block, so what it raises ends this dispatch call and every loop at work
Propagated(loops, exc) ==
    IF exc # None
    THEN <<>>
    ELSE Append(SubSeq(loops, 1, Len(loops) - 1), Advanced(loops[Len(loops)]))

DispatchCall(loop, depth, d) ==
    [type |-> loop.type, parent |-> loop.parent,
     component |-> loop.list[loop.pos], template_data |-> loop.template_data,
     depth |-> depth, name |-> d.name, component_data |-> d.component_data,
     kind |-> d.kind, func |-> d.func, exc |-> d.exc, built |-> d.built]

Ok == [k |-> "ok", v |-> <<>>]

\* the interpreter lets no more than its recursion limit of calls be at work:
\* the dispatch call that would go beyond raises RuntimeError
RecursionLimit(loops) == Len(loops) > MaxDepth
RecursionError ==
    Raise("RuntimeError", <<"maximum recursion depth exceeded", <<>>, "">>)

loaderAndMapVars == <<loaderVars, mapVars>>

\* a variant: each registry has an entry points cache of its own
ModuleRegistry_init_own_cache(found) ==
    /\ dstack = <<>>
    /\ masked_warned' = {}
    /\ warned' = <<>>
    /\ inherited' = found
    /\ parser_data' = NoParserData
    /\ entry_points_cache' = {}
    /\ xml' = <<>>
    /\ dlog' = <<>>
    /\ dresult' = None
    /\ dcall' = [type |-> "", components |-> <<>>]
    /\ dtrace' = <<>>
    /\ discovered' = <<>>
    /\ UNCHANGED <<allow_empty_variables, dstack, loaderAndMapVars,
                   helperVars>>

\* ModuleRegistry.__init__: a new registry, with nothing warned about, no
\* parser data and no gen_xml call made; the entry points cache belongs to
\* the class and stays.
\* found is what the history keeps of the cache the registry finds: the
\* cache itself where the history is followed, nothing elsewhere.
ModuleRegistry_init(found) ==
    /\ dstack = <<>>
    /\ masked_warned' = {}
    /\ warned' = <<>>
    /\ inherited' = found
    /\ parser_data' = NoParserData
    /\ xml' = <<>>
    /\ dlog' = <<>>
    /\ dresult' = None
    /\ dcall' = [type |-> "", components |-> <<>>]
    /\ dtrace' = <<>>
    /\ discovered' = <<>>
    /\ UNCHANGED <<entry_points_cache, allow_empty_variables, dstack,
                   loaderAndMapVars, helperVars>>

\* ModuleRegistry.set_parser_data(parser_data), between gen_xml calls: the
\* registry in use gets the macros, and nothing else of it changes
set_parser_data(macros) ==
    /\ dstack = <<>>
    /\ parser_data' = ParserData(macros)
    /\ UNCHANGED <<entry_points_cache, masked_warned, allow_empty_variables,
                   dstack, xml, dlog, dresult, dcall, dtrace, discovered,
                   warned, inherited, loaderAndMapVars, helperVars>>

\* gen_xml of a module (Parameters.gen_xml): each component of the list is
\* dispatched, in order, with no template data
gen_xml(component_type, components) ==
    /\ dstack = <<>>
    /\ dstack' = <<Loop(component_type, XmlParent(component_type),
                        components, Dict(<<>>))>>
    /\ xml' = <<>>
    /\ dlog' = <<>>
    /\ dresult' = None
    /\ dcall' = [type |-> component_type, components |-> components]
    /\ dtrace' = <<>>
    /\ discovered' = <<>>
    /\ UNCHANGED <<entry_points_cache, masked_warned, allow_empty_variables,
                   parser_data, warned, inherited, loaderAndMapVars,
                   helperVars>>

\* one call of dispatch: it raises, calls the component function (which
\* returns or raises), or enters the loop over the body of the macro
DispatchStep ==
    /\ dstack # <<>>
    /\ dstack[Len(dstack)].pos <= Len(dstack[Len(dstack)].list)
    /\ LET loop == dstack[Len(dstack)]
           Then(d) ==
               /\ entry_points_cache' = d.cache
               /\ masked_warned' = d.masked
               /\ warned' = warned \o [i \in 1..Len(d.log) |-> d.log[i].arg]
               /\ discovered' = IF d.built
                                THEN Append(discovered,
                                            modules_by_component_type[loop.type])
                                ELSE discovered
               /\ dtrace' = Append(dtrace, DispatchCall(loop, Len(dstack), d))
               /\ IF d.kind = "raise"
                  THEN /\ dstack' = <<>>
                       /\ dresult' = d.exc
                       /\ xml' = xml
                       /\ dlog' = dlog \o d.log
                  ELSE IF d.kind = "macro"
                  THEN /\ dstack' = Entered(dstack, d)
                       /\ dlog' = dlog \o d.log
                       /\ UNCHANGED <<dresult, xml>>
                  ELSE LET After(g) ==
                               /\ dstack' = Propagated(dstack, g.exc)
                               /\ xml' = Append(xml,
                                           FuncCall(d.func, loop.parent,
                                                    d.component_data))
                               /\ dlog' = dlog \o d.log \o g.log
                               /\ dresult' = IF g.exc # None THEN g.exc
                                             ELSE dresult
                       IN  After(Generated(d.func, d.component_data))
       IN  IF RecursionLimit(dstack)
           THEN /\ dstack' = <<>>
                /\ dresult' = RecursionError
                /\ UNCHANGED <<entry_points_cache, masked_warned, dlog, warned,
                               discovered, dtrace, xml>>
           ELSE Then(dispatch(entry_points_cache, masked_warned,
                              allow_empty_variables, loop.type,
                              loop.list[loop.pos], loop.template_data))
    /\ UNCHANGED <<allow_empty_variables, parser_data, dcall, inherited,
                   loaderAndMapVars, helperVars>>

\* the end of a loop: dispatch returns to the loop that called it, or
\* gen_xml returns
DispatchReturn ==
    /\ dstack # <<>>
    /\ dstack[Len(dstack)].pos > Len(dstack[Len(dstack)].list)
    /\ dstack' = SubSeq(dstack, 1, Len(dstack) - 1)
    /\ dresult' = IF Len(dstack) = 1 THEN Ok ELSE dresult
    /\ UNCHANGED <<entry_points_cache, masked_warned, allow_empty_variables,
                   parser_data, xml, dlog, dcall, dtrace, discovered, warned,
                   inherited, loaderAndMapVars, helperVars>>

(***************************************************************************)
(* The helpers: jenkins_jobs/modules/helpers.py, convert_mapping_to_xml.   *)
(* A value is None, a bool or a text; v is its text, str(value).           *)
(***************************************************************************)
PyNone == [k |-> "NoneType", v |-> "None"]
PyBool(b) == [k |-> "bool", v |-> IF b THEN "True" ELSE "False"]
PyStr(s) == [k |-> "str", v |-> s]

\* no value is given for the option name
Absent == [k |-> "absent", v |-> ""]

\* the fourth part of an entry of the mapping, if any: a list of valid
\* options, or a dict of valid options with the text for each
NoOptions == [kind |-> "none", keys |-> <<>>, vals |-> <<>>]
OptionList(keys) == [kind |-> "list", keys |-> keys, vals |-> <<>>]
OptionDict(keys, vals) == [kind |-> "dict", keys |-> keys, vals |-> vals]

Entry(optname, xmlname, val, options) ==
    [optname |-> optname, xmlname |-> xmlname, val |-> val,
     options |-> options]

SubElement(tag, text) == [tag |-> tag, text |-> text]

\* data.get(optname, val)
get(given, optname, val) ==
    IF given[optname] = Absent THEN val ELSE given[optname]

\* val in valid_options, val in valid_dict
In(val, keys) == \E i \in 1..Len(keys) : keys[i] = val

\* str(val).lower() of a bool
lower(text) ==
    CASE text = "True" -> "true"
      [] text = "False" -> "false"
      [] OTHER -> text

\* lines 490-496: the valid options of the entry
valid_options(entry) ==
    IF entry.options.kind = "list" THEN entry.options.keys ELSE <<>>
valid_dict(entry) ==
    IF entry.options.kind = "dict" THEN entry.options ELSE NoOptions

\* lines 518-524: the text of the element
ElementText(val, dict) ==
    LET lowered == IF val.k = "bool" THEN PyStr(lower(val.v)) ELSE val
    IN  IF In(lowered, dict.keys)
        THEN dict.vals[CHOOSE i \in 1..Len(dict.keys) : dict.keys[i] = lowered]
        ELSE lowered.v

Converted(exc, skip, element) ==
    [exc |-> exc, skip |-> skip, element |-> element]

\* lines 487-524: one turn of the loop over the mapping
convert_entry(entry, given, fail_required) ==
    LET val == get(given, entry.optname, entry.val)
        none == SubElement("", "")
    IN  IF val = PyNone /\ fail_required
        THEN Converted(MissingAttributeError(entry.optname), FALSE, none)
        ELSE IF val = PyNone
        THEN Converted(None, TRUE, none)
        ELSE IF /\ valid_dict(entry).keys # <<>>
                /\ ~In(val, valid_dict(entry).keys)
        THEN Converted(InvalidAttributeError(entry.optname), FALSE, none)
        ELSE IF /\ valid_options(entry) # <<>>
                /\ ~In(val, valid_options(entry))
        THEN Converted(InvalidAttributeError(entry.optname), FALSE, none)
        ELSE Converted(None, FALSE,
                       SubElement(entry.xmlname,
                                  ElementText(val, valid_dict(entry))))

registryAndOtherVars == <<loaderVars, mapVars, registryVars>>

\* one turn of "for elem in mapping": it raises, skips the entry or appends
\* one child element to parent
ConvertEntry ==
    /\ cm_result = None
    /\ cm_elem <= Len(cm_mapping)
    /\ LET Then(r) ==
               IF r.exc # None
               THEN /\ cm_result' = r.exc
                    /\ UNCHANGED <<cm_parent, cm_elem>>
               ELSE /\ cm_elem' = cm_elem + 1
                    /\ cm_parent' = IF r.skip THEN cm_parent
                                    ELSE Append(cm_parent, r.element)
                    /\ UNCHANGED cm_result
       IN  Then(convert_entry(cm_mapping[cm_elem], cm_data, cm_fail_required))
    /\ UNCHANGED <<cm_data, cm_mapping, cm_fail_required, registryAndOtherVars>>

\* the end of the loop: convert_mapping_to_xml returns
ConvertReturn ==
    /\ cm_result = None
    /\ cm_elem > Len(cm_mapping)
    /\ cm_result' = Ok
    /\ UNCHANGED <<cm_parent, cm_data, cm_mapping, cm_fail_required, cm_elem,
                   registryAndOtherVars>>

(***************************************************************************)
(* Inputs.                                                                 *)
(***************************************************************************)
RECURSIVE SeqsUpTo(_, _)
SeqsUpTo(S, n) ==
    IF n = 0 THEN {<<>>}
    ELSE LET shorter == SeqsUpTo(S, n - 1)
         IN  shorter \cup {Append(s, x) : s \in shorter, x \in S}

PathStrings == StringsUpTo(MaxPathLen)
\* the paths of sequence nodes: a file of two directories, a file of the
\* working directory, a lazy path, a missing file, a file whose document is
\* a list
SeqPaths ==
    {<<"v">>, <<"0">>, <<"{", "v", "}">>, <<"v", "}", "}">>, <<"0", "0">>}
IncludeNodes ==
    {ScalarNode(tag, path) : tag \in Tags, path \in PathStrings}
    \cup {SequenceNode(tag, paths) : tag \in Tags, paths \in SeqsUpTo(SeqPaths, MaxSeqLen)}

SearchPaths == {<<>>, <<"A", "B">>, <<"./B", "A/">>}
StreamNames == {<<>>, <<"D", "top.yaml">>}
Kwargs == {(<<"v">> :> <<"v">>), (<<"v">> :> <<"0">>)}

AnchorNames == {"a"}
SessionPaths == {<<"v", "0">>, <<"0", "v">>, <<"0", "0">>, <<"0", "{", "v", "}">>}
SessionNodes ==
    {Anchor(a, <<"y">>) : a \in AnchorNames}
    \cup {Alias(a) : a \in AnchorNames}
    \cup {ScalarNode(IncludeTag, path) : path \in SessionPaths}
SessionDocs ==
    {ListDoc(nodes) : nodes \in SeqsUpTo(SessionNodes, MaxDocLen)}
    \cup {ScalarDoc(node) : node \in SessionNodes}

\* documents of sessions whose LazyLoader is formatted in a later one: an
\* anchor, an include that defines it, an include left for later
LaterNodes ==
    {Anchor(a, <<"y">>) : a \in AnchorNames}
    \cup {ScalarNode(IncludeTag, <<"v", "0">>),
          ScalarNode(IncludeTag, <<"0", "{", "v", "}">>)}
LaterDocs == {ListDoc(nodes) : nodes \in SeqsUpTo(LaterNodes, MaxDocLen)}

\* the sequences of at most n (key, value) pairs with distinct keys
RECURSIVE PairsUpTo(_, _, _)
PairsUpTo(keys, values, n) ==
    IF n = 0 THEN {<<>>}
    ELSE LET Longer(shorter) ==
                 shorter \cup UNION {
                     {Append(pairs, <<key, value>>) :
                         key \in keys \ {pairs[i][1] : i \in 1..Len(pairs)},
                         value \in values} : pairs \in shorter}
         IN  Longer(PairsUpTo(keys, values, n - 1))

InnerNodes == PairsUpTo(InnerKeys, {Num(1)}, Cardinality(InnerKeys))
MappingValues == {Num(1), Num(2)} \cup {Map(pairs) : pairs \in InnerNodes}
\* the mapping nodes of n entries: n distinct keys in any order, any values
MappingNodes(n) ==
    {[i \in 1..n |-> <<ks[i], vs[i]>>] :
        ks \in {ks \in [1..n -> Keys] : Distinct(ks)},
        vs \in [1..n -> MappingValues]}

\* the components of the lists given to gen_xml, by component type
Components(component_type) ==
    CASE component_type = "parameter" ->
            { Item(<<"t", "e", "x", "t">>,
                   Dict(<<<<(<<"n", "a", "m", "e">>), Text(<<"{", "v", "}">>)>>>>)),
              Text(<<"m">>),
              Item(<<"m">>, Dict(<<<<(<<"v">>), Text(<<"0">>)>>>>)),
              Item(<<"m">>, Dict(<<<<(<<"v">>), Text(<<"{", "{">>)>>>>)),
              Item(<<"m">>, Dict(<<<<(<<"v">>), Number(0)>>>>)),
              Item(<<"r", "u", "n">>, Dict(<<<<(<<"v">>), Text(<<"0">>)>>>>)),
              Item(<<"w">>, Dict(<<<<(<<"v">>), Text(<<"0">>)>>>>)) }
      [] component_type = "trigger" ->
            { Text(<<"i", "v", "y">>),
              Item(<<"r", "u", "n">>, Dict(<<<<(<<"v">>), Text(<<"0">>)>>>>)),
              Text(<<"z">>) }
      [] component_type = "publisher" ->
            { Text(<<"s", "c", "p">>), Text(<<"p">>) }
      [] component_type = "builder" ->
            { Text(<<"s">>), Text(<<"c">>), Text(<<"d">>) }
      [] OTHER -> { Text(<<"i", "v", "y">>) }

ComponentTypes == {"parameter", "trigger", "publisher", "wrapper"}

\* triggers whose function may raise: the macro 'u', whose body reaches
\* pollscm without 'cron', pollscm with a valid 'cron', and pollscm with the
\* cron itself for data, valid and invalid
PollingTriggers ==
    { Text(<<"u">>),
      Item(<<"p", "o", "l", "l", "s", "c", "m">>,
           Dict(<<<<(<<"c", "r", "o", "n">>), Text(<<"0">>)>>>>)),
      Item(<<"p", "o", "l", "l", "s", "c", "m">>, Text(<<"0">>)),
      Item(<<"p", "o", "l", "l", "s", "c", "m">>, Number(0)) }

\* parameters whose function may raise, text with and without its 'name',
\* and the macro 'm' with a text and with an integer for its arguments
NamedParameters ==
    { Item(<<"t", "e", "x", "t">>,
           Dict(<<<<(<<"n", "a", "m", "e">>), Text(<<"0">>)>>>>)),
      Item(<<"t", "e", "x", "t">>,
           Dict(<<<<(<<"a">>), Text(<<"0">>)>>>>)),
      Item(<<"m">>, Text(<<"x">>)),
      Item(<<"m">>, Number(5)) }

\* the components of the registries that share the cache
SharedComponents(component_type) ==
    CASE component_type = "trigger" ->
            (Components("trigger") \ {Text(<<"z">>)}) \cup PollingTriggers
      [] component_type = "parameter" -> NamedParameters
      [] OTHER -> Components(component_type)

\* the option names of a mapping, each with its XML name
OptNames == {<<"o">>, <<"p">>}
XmlName(optname) == IF optname = <<"o">> THEN "O" ELSE "P"
Defaults == {PyNone, PyStr("a")}
Options ==
    { NoOptions,
      OptionList(<<PyStr("a")>>),
      OptionDict(<<PyStr("a")>>, <<"x">>),
      OptionDict(<<PyBool(TRUE)>>, <<"x">>) }
Entries ==
    {Entry(optname, XmlName(optname), val, options) :
        optname \in OptNames, val \in Defaults, options \in Options}
Given == {Absent, PyNone, PyStr("a"), PyStr("b"), PyBool(TRUE)}

(***************************************************************************)
(* Specifications.                                                         *)
(***************************************************************************)
Idle ==
    /\ anchors = {}
    /\ stack = <<>>
    /\ result = None
    /\ held = None
    /\ log = <<>>
    /\ call = NoCall
    /\ created = None
    /\ sessionDefs = {}

NoMapping ==
    /\ mnode = <<>>
    /\ mdata = None
    /\ mdump = None
    /\ mreload = None

\* a process that has dispatched nothing yet, and its first registry
NoDispatch ==
    /\ entry_points_cache = {}
    /\ masked_warned = {}
    /\ dstack = <<>>
    /\ xml = <<>>
    /\ dlog = <<>>
    /\ dresult = None
    /\ dcall = [type |-> "", components |-> <<>>]
    /\ dtrace = <<>>
    /\ discovered = <<>>
    /\ warned = <<>>
    /\ inherited = {}
    /\ parser_data = NoParserData

NoRegistry == NoDispatch /\ allow_empty_variables = FALSE

\* no call of convert_mapping_to_xml
NoConversion ==
    /\ cm_parent = <<>>
    /\ cm_data = [optname \in OptNames |-> Absent]
    /\ cm_mapping = <<>>
    /\ cm_fail_required = FALSE
    /\ cm_elem = 1
    /\ cm_result = None

\* Sessions: top-level loads of documents with anchors, aliases and inline
\* includes, and the resolution of a held LazyLoader between them.
Init == Idle /\ NoMapping /\ NoRegistry /\ NoConversion

Next ==
    \/ \E doc \in SessionDocs, name \in StreamNames :
          Load(doc, <<>>, "_escape", name)
    \/ ComposeStep
    \/ ComposeDone
    \/ ConstructStep
    \/ ConstructDone
    \/ \E kwargs \in Kwargs : Resolve(kwargs)

Spec == Init /\ [][Next]_vars

\* Sessions whose caller keeps a LazyLoader of the list load() returned and
\* formats it during the same session or a later one.
NextLater ==
    \/ \E doc \in LaterDocs, name \in StreamNames :
          Load(doc, <<>>, "_escape", name)
    \/ ComposeStep
    \/ ComposeDone
    \/ ConstructStep
    \/ ConstructDone
    \/ Hold
    \/ \E kwargs \in Kwargs : Resolve(kwargs)

SpecLater == Init /\ [][NextLater]_vars

\* One include tag: load() has been called on a document that is one tagged
\* node, with any path, search path, stream name and escape callback; the
\* LazyLoader it returns is then formatted.
InitInclude ==
    /\ NoMapping
    /\ NoConversion
    /\ NoRegistry
    /\ anchors = {}
    /\ result = None
    /\ held = None
    /\ log = <<>>
    /\ created = None
    /\ sessionDefs = {}
    /\ \E node \in IncludeNodes, sp \in SearchPaths,
          cb \in EscapeCallbacks, name \in StreamNames :
          /\ stack = <<Frame("load", ScalarDoc(node), LocalLoaderInit(sp, cb, name))>>
          /\ call = Call("load", ScalarDoc(node), LoadArgs(sp, cb, name),
                         LocalLoaderInit(sp, cb, name), NoArgs)

NextInclude ==
    \/ ComposeStep
    \/ ComposeDone
    \/ ConstructStep
    \/ ConstructDone
    \/ \E kwargs \in Kwargs : Resolve(kwargs)
    \/ \E kwargs \in Kwargs : FormatCollection(kwargs)
    \/ FormatCollectionStep

SpecInclude == InitInclude /\ [][NextInclude]_vars

\* One mapping: constructed, dumped and loaded again.
InitMap ==
    /\ Idle
    /\ NoConversion
    /\ NoRegistry
    /\ \E n \in 0..MaxMapLen : mnode \in MappingNodes(n)
    /\ mdata = None
    /\ mdump = None
    /\ mreload = None

NextMap == MapConstruct \/ MapDump \/ MapReload

SpecMap == InitMap /\ [][NextMap]_vars

\* Registries: gen_xml calls on lists of components, one after the other,
\* and new registries between them, with empty variables allowed or not.
InitDispatch ==
    /\ Idle
    /\ NoConversion
    /\ NoMapping
    /\ NoDispatch
    /\ allow_empty_variables \in BOOLEAN

\* The lists given to gen_xml: a registry that has no parser data ends
\* every call at its first dispatch call, so the lists of one component are
\* all its cases.
NextDispatch ==
    \/ ModuleRegistry_init({})
    \/ set_parser_data(Macros)
    \/ \E component_type \in ComponentTypes :
          \E components \in SeqsUpTo(Components(component_type), MaxListLen) :
             parser_data.set /\ gen_xml(component_type, components)
    \/ \E component_type \in ComponentTypes :
          \E components \in SeqsUpTo(Components(component_type), 1) :
             ~parser_data.set /\ gen_xml(component_type, components)
    \/ DispatchStep
    \/ DispatchReturn

SpecDispatch == InitDispatch /\ [][NextDispatch]_vars

\* Registries of one process, one after the other, each finding the cache
\* the ones before it left: gen_xml calls of triggers and of parameters,
\* whose functions may raise, and of publishers.
NextRegistries ==
    \/ ModuleRegistry_init(entry_points_cache)
    \/ set_parser_data(Macros)
    \/ \E component_type \in {"trigger", "publisher", "parameter"} :
          \E components \in SeqsUpTo(SharedComponents(component_type),
                                     MaxListLen) :
             parser_data.set /\ gen_xml(component_type, components)
    \/ \E component_type \in {"trigger", "publisher", "parameter"} :
          \E components \in SeqsUpTo(SharedComponents(component_type), 1) :
             ~parser_data.set /\ gen_xml(component_type, components)
    \/ DispatchStep
    \/ DispatchReturn

SpecRegistries == InitDispatch /\ [][NextRegistries]_vars

\* Macros that invoke themselves: gen_xml calls of builders, whose macros
\* 'c' and 'd', 'e' do and whose macro 's' does not.  A call that is under
\* way goes on: the interpreter takes the next step of the code.
NextRecursion ==
    \/ set_parser_data(Macros)
    \/ \E components \in SeqsUpTo(Components("builder"), MaxListLen) :
          parser_data.set /\ gen_xml("builder", components)
    \/ \E components \in SeqsUpTo(Components("builder"), 1) :
          ~parser_data.set /\ gen_xml("builder", components)
    \/ DispatchStep
    \/ DispatchReturn

SpecRecursion ==
    /\ InitDispatch
    /\ [][NextRecursion]_vars
    /\ WF_vars(DispatchStep)
    /\ WF_vars(DispatchReturn)

\* One call of convert_mapping_to_xml, on an empty parent, with any data,
\* mapping and fail_required.
InitConvert ==
    /\ Idle
    /\ NoMapping
    /\ NoRegistry
    /\ cm_parent = <<>>
    /\ cm_data \in [OptNames -> Given]
    /\ cm_mapping \in SeqsUpTo(Entries, MaxMappingLen)
    /\ cm_fail_required \in BOOLEAN
    /\ cm_elem = 1
    /\ cm_result = None

NextConvert == ConvertEntry \/ ConvertReturn

SpecConvert == InitConvert /\ [][NextConvert]_vars

(***************************************************************************)
(* The steps of a load and yaml.load in one go agree.                      *)
(***************************************************************************)
StepsAgreeWithLoad ==
    (stack = <<>> /\ call.op = "load" /\ result # None) =>
        LET o == yaml_load(call.doc, call.loader, {})
        IN  /\ result = o.val
            /\ anchors = o.table
            /\ log = o.log

(***************************************************************************)
(* Properties.                                                             *)
(***************************************************************************)
\* the operation has returned or raised
Completed == stack = <<>> /\ result # None
\* the tagged node of a document that is one node, and its first path
TheNode == call.doc.events[1]
ThePath == TheNode.v[1]
LoadedScalar ==
    /\ Completed
    /\ call.op = "load"
    /\ call.doc.root = "scalar"
    /\ TheNode.k = "tag"
    /\ ~TheNode.s
Eager(path) == Format(path, NoArgs).err = "none"
FoundIn(path, search_path) ==
    \E i \in 1..Len(search_path) : <<search_path[i], path>> \in DOMAIN Files
\* the text of the first file named path along search_path
FirstText(path, search_path) ==
    LET first == CHOOSE i \in 1..Len(search_path) :
                    /\ <<search_path[i], path>> \in DOMAIN Files
                    /\ \A j \in 1..(i - 1) : <<search_path[j], path>> \notin DOMAIN Files
    IN  Files[<<search_path[first], path>>].text

\* C1: within one session (a load() and the nested parses of its includes)
\* an alias resolves to the node the session defined for its anchor, and an
\* alias fails as undefined only when the session has not defined the anchor;
\* a load() whose document starts with an alias fails with that error
\* whatever the sessions before it defined.
C1_AliasResolvesToSessionAnchor ==
    /\ \A j \in 1..Len(stack) : \A i \in 1..Len(stack[j].nodes) :
          stack[j].events[i].k = "alias" =>
              \E d \in sessionDefs :
                  d.name = stack[j].events[i].n /\ stack[j].nodes[i] = d.node
    /\ (IsError(result) /\ result.v[1] = "ComposerError: found undefined alias") =>
          ~ \E d \in sessionDefs : <<d.name>> = result.v[2].name
    /\ (/\ Completed
        /\ call.op = "load"
        /\ call.doc.events # <<>>
        /\ call.doc.events[1].k = "alias") =>
          result = Raise("ComposerError: found undefined alias",
                         [dir |-> "", name |-> <<call.doc.events[1].n>>])

\* an alias of a nested document has resolved to the anchor another nested
\* document of the session defined (the file "v0" gives it the value x)
C1_Witness ==
    /\ Len(stack) >= 2
    /\ stack[1].role = "load"
    /\ Top.events = <<Alias("a")>>
    /\ Top.nodes = <<Anchor("a", <<"x">>)>>

\* C2: a top-level load() starts with an empty anchor table; every other
\* step (composing a node, finishing a document, starting or finishing a
\* nested include parse, formatting a LazyLoader) keeps every entry.
C2_AnchorsOnlyGrowUntilLoad ==
    [][IF stack = <<>> /\ stack' # <<>> /\ stack'[1].role = "load"
       THEN anchors' = {}
       ELSE anchors \subseteq anchors']_vars

\* a nested include parse has finished and its anchor is still in the table
C2_Witness ==
    /\ Len(stack) = 1
    /\ stack[1].role = "load"
    /\ stack[1].acc # <<>>
    /\ \E e \in anchors : e.node = Anchor("a", <<"x">>)

\* the keys of a constructed mapping are those of its node, in the same
\* order, at every depth
RECURSIVE KeyOrderKept(_, _)
KeyOrderKept(node_value, mapping) ==
    /\ KeysOf(node_value) = KeysOf(mapping)
    /\ \A i \in 1..Len(node_value) :
          node_value[i][2].k = "map" =>
              /\ mapping[i][2].k = "map"
              /\ KeyOrderKept(node_value[i][2].v, mapping[i][2].v)

\* C3: iterating a constructed mapping yields the keys in source order at
\* every depth, and load(dump(m)) is m, with the same key order.
C3_KeyOrderRoundTrip ==
    /\ mdata # None => KeyOrderKept(mnode, mdata.v)
    /\ mreload # None => mreload = mdata

\* the documented search path: the caller's directories in the caller's
\* order, the directory of the named stream, the working directory
DocumentedSearchPath ==
    [i \in 1..Len(call.kw.search_path) |-> normpath(call.kw.search_path[i])]
    \o (IF call.kw.stream_name = <<>> THEN <<>>
        ELSE <<normpath(dirname(call.kw.stream_name))>>)
    \o <<".">>

\* C4: an include path is read from the first directory of the search path
\* (the caller's directories in order, the directory of the document, the
\* working directory) that holds a file of that name.
C4_FirstCandidateWins ==
    (LoadedScalar /\ NewTag(TheNode.n) = RawTag /\ Eager(ThePath)) =>
        IF FoundIn(ThePath, DocumentedSearchPath)
        THEN result = Str(FirstText(ThePath, DocumentedSearchPath))
        ELSE IsError(result)

\* the file "v" is in A and in B: with [A, B] the one of A is read
C4_Witness ==
    /\ LoadedScalar
    /\ TheNode.n = RawTag
    /\ ThePath = <<"v">>
    /\ call.kw.search_path = <<"A", "B">>
    /\ result = Str(<<"a", "{">>)

\* C5: when no directory of the search path holds the file, the bare path is
\* what is opened; the read error is logged with the search path and raised,
\* and the load ends with it.
C5_MissingFileFailsOnOpen ==
    /\ (LoadedScalar /\ Eager(ThePath)
        /\ ~FoundIn(ThePath, call.loader.search_path)) =>
          /\ result = Raise("IOError", [dir |-> "", name |-> ThePath])
          /\ log # <<>>
          /\ log[Len(log)] = LogRecord("error",
                "Failed to include file using search path",
                JoinColon(call.loader.search_path))
    /\ IsError(result) => stack = <<>>

C5_Witness ==
    /\ LoadedScalar
    /\ ThePath = <<"v", "v">>
    /\ result = Raise("IOError", [dir |-> "", name |-> <<"v", "v">>])
    /\ Len(log) = 1

\* C6: a path is lazy exactly when format() with no arguments misses a
\* named placeholder; any other well-formed path, positional placeholders
\* included, is read at parse time and the detection raises nothing.
C6_LazyExactlyOnMissingPlaceholder ==
    (LoadedScalar /\ Format(ThePath, NoArgs).err # "ValueError") =>
        IF Format(ThePath, NoArgs).err = "KeyError"
        THEN IsLazy(result)
        ELSE /\ ~IsLazy(result)
             /\ ~(IsError(result) /\ result.v[1] = "IndexError")

\* C7: format(args) on a LazyLoader made by an !include-raw: tag from the
\* path P returns what the tag returns for the path P with args substituted.
C7_ResolveEqualsEagerInclude ==
    (/\ Completed
     /\ call.op = "format"
     /\ NewTag(created.doc.events[1].n) = RawTag
     /\ Format(created.lazy.v.node, call.args).err = "none") =>
        result = YamlIncludeRaw_from_yaml(
                    created.lazy.v.loader,
                    ScalarNode(RawTag, Format(created.lazy.v.node, call.args).out)).val

\* every brace of the text twice, anything else once
BraceCount(text, n) == Cardinality({i \in 1..n : text[i] \in {"{", "}"}})
BracesDoubled(text) ==
    [j \in 1..(Len(text) + BraceCount(text, Len(text))) |->
        LET i == CHOOSE i \in 1..Len(text) :
                    j \in {i + BraceCount(text, i - 1), i + BraceCount(text, i)}
        IN  text[i]]

\* C8: an !include-raw-escape: of a path read at parse time returns the text
\* with every brace doubled once; of a lazy path it returns a LazyLoader of
\* !include-raw:, which formats to the text of the file as it is.
C8_EscapedOnceUnlessLazy ==
    /\ (/\ LoadedScalar
        /\ NewTag(TheNode.n) = RawEscapeTag
        /\ call.loader.escape_callback = "_escape"
        /\ Eager(ThePath)
        /\ FoundIn(ThePath, call.loader.search_path)) =>
          result = Str(BracesDoubled(FirstText(ThePath, call.loader.search_path)))
    /\ (/\ LoadedScalar
        /\ NewTag(TheNode.n) = RawEscapeTag
        /\ Format(ThePath, NoArgs).err = "KeyError") =>
          /\ IsLazy(result)
          /\ result.v.cls = RawTag
    /\ (/\ Completed
        /\ call.op = "format"
        /\ NewTag(created.doc.events[1].n) = RawEscapeTag
        /\ result.k = "str") =>
          result.v = FirstText(held.v.node, held.v.loader.search_path)

\* the text "a{" of the file "v" of A has come back as "a{{"
C8_Witness ==
    /\ LoadedScalar
    /\ TheNode.n = RawEscapeTag
    /\ ThePath = <<"v">>
    /\ result = Str(<<"a", "{", "{">>)

\* the texts with one newline between two of them
RECURSIVE NewlineJoined(_)
NewlineJoined(texts) ==
    IF Len(texts) = 0 THEN <<>>
    ELSE IF Len(texts) = 1 THEN texts[1]
    ELSE NewlineJoined(SubSeq(texts, 1, Len(texts) - 1))
         \o <<"\n">> \o texts[Len(texts)]

\* C9: an !include-raw: or !include-raw-escape: of a sequence of paths, none
\* lazy, returns the texts of the files in list order with one newline
\* between two files and none before or after; the escape is applied once,
\* to the whole.
C9_SequenceJoinedByNewline ==
    (/\ Completed
     /\ call.op = "load"
     /\ call.doc.root = "scalar"
     /\ TheNode.k = "tag"
     /\ TheNode.s
     /\ NewTag(TheNode.n) \in {RawTag, RawEscapeTag}
     /\ \A i \in 1..Len(TheNode.v) :
           Eager(TheNode.v[i]) /\ FoundIn(TheNode.v[i], call.loader.search_path)) =>
        LET joined == NewlineJoined(
                [i \in 1..Len(TheNode.v) |->
                    FirstText(TheNode.v[i], call.loader.search_path)])
        IN  result = Str(IF NewTag(TheNode.n) = RawTag THEN joined
                         ELSE IF call.loader.escape_callback = "_escape"
                         THEN BracesDoubled(joined)
                         ELSE HostEscape(joined))

\* two files joined, and escaped as one text
C9_Witness ==
    /\ Completed
    /\ call.op = "load"
    /\ TheNode.k = "tag"
    /\ TheNode.s
    /\ TheNode.n = RawEscapeTag
    /\ TheNode.v = <<<<"v">>, <<"0">>>>
    /\ result = Str(<<"a", "{", "{", "\n", "c">>)

\* the spelling that replaces a deprecated one
Replacement(tag) ==
    CASE tag = "!include" -> "!include:"
      [] tag = "!include-raw" -> "!include-raw:"
      [] tag = "!include-raw-escape" -> "!include-raw-escape:"

\* C10: a deprecated spelling returns or raises what its replacement does on
\* the same node with the same loader, leaves the same anchors, and logs the
\* same records after one deprecation warning.
C10_DeprecatedSameAsReplacement ==
    (/\ Completed
     /\ call.op = "load"
     /\ call.doc.root = "scalar"
     /\ TheNode.k = "tag"
     /\ TheNode.n \in DeprecatedTags) =>
        LET new == yaml_load(
                      ScalarDoc([TheNode EXCEPT !.n = Replacement(TheNode.n)]),
                      call.loader, {})
            warning == LogRecord("warning", "tag is deprecated",
                                 <<TheNode.n, Replacement(TheNode.n)>>)
        IN  /\ result = new.val
            /\ anchors = new.table
            /\ log = <<warning>> \o new.log

\* the deprecated !include-raw-escape has returned the escaped text
C10_Witness ==
    /\ Completed
    /\ call.op = "load"
    /\ TheNode.k = "tag"
    /\ TheNode.n = "!include-raw-escape"
    /\ result = Str(<<"a", "{", "{">>)
    /\ Len(log) = 1

(***************************************************************************)
(* Properties of the registry.                                             *)
(***************************************************************************)
Registered(component_type) == component_type \in DOMAIN modules_by_component_type
Calls == 1..Len(dtrace)
LastCall == dtrace[Len(dtrace)]
KeysOfDict(value) == [i \in 1..Len(value.items) |-> value.items[i][1]]
\* func is the function of the entry point of that name for the type
IsFuncOf(func, name, component_type) ==
    \E i \in 1..Len(module_eps(modules_by_component_type[component_type])) :
        /\ module_eps(modules_by_component_type[component_type])[i].name = name
        /\ module_eps(modules_by_component_type[component_type])[i].func = func

\* C11: a dispatch call on a simple name works with that name and empty
\* arguments; a call on a dict of one item works with the key as name and the
\* value as arguments (the value itself when there is no template data, the
\* same keys when there is); the macro looked up, the function looked up and
\* the arguments of the function call are those of that name and arguments.
C11_NameAndArguments ==
    /\ \A i \in Calls :
          LET c == dtrace[i]
          IN  Registered(c.type) =>
                /\ c.component.k = "str" =>
                      /\ c.name = c.component.s
                      /\ c.component_data = Dict(<<>>)
                /\ (c.component.k = "dict" /\ Len(c.component.items) = 1) =>
                      /\ c.name = c.component.items[1][1]
                      /\ ~Truthy(c.template_data) =>
                            c.component_data = c.component.items[1][2]
                      /\ KeysOfDict(c.component_data)
                            = KeysOfDict(c.component.items[1][2])
                /\ c.kind = "macro" => HasMacro(c.type, c.name)
                /\ c.kind = "func" => IsFuncOf(c.func, c.name, c.type)
    /\ (dtrace # <<>> /\ LastCall.kind = "func") =>
          /\ xml # <<>>
          /\ xml[Len(xml)] = FuncCall(LastCall.func, LastCall.parent,
                                      LastCall.component_data)
    /\ (dtrace # <<>> /\ LastCall.kind = "macro") =>
          /\ dstack # <<>>
          /\ dstack[Len(dstack)] = Loop(LastCall.type, LastCall.parent,
                                        MacroBody(LastCall.type, LastCall.name),
                                        LastCall.component_data)

\* a gen_xml call has returned after a function was called for a simple name
\* inside a macro that has arguments, and one for a dict of one item
C11_Witness ==
    /\ dresult = Ok
    /\ \E i, j \in Calls :
          /\ dtrace[i].component.k = "str"
          /\ dtrace[i].kind = "func"
          /\ Truthy(dtrace[i].template_data)
          /\ dtrace[j].component.k = "dict"
          /\ dtrace[j].kind = "func"
          /\ Truthy(dtrace[j].component_data)

\* the arguments of a call as written in its component
Written(c) == c.component.items[1][2]
\* the text s with the values of template_data put in
Substituted(s, template_data) ==
    Format(s, IF allow_empty_variables
              THEN OrEmpty(KeywordArgs(template_data), s)
              ELSE KeywordArgs(template_data))

\* C12: a dispatch call on a dict that raises nothing has, when its template
\* data are empty, the arguments as written (and these are what the function
\* is called with, or what the body of the macro gets as template data); when
\* its template data are not empty, each text among the arguments is the
\* written text with the template data substituted and each other value is
\* the written one.
C12_FormattedWhenTemplateData ==
    /\ \A i \in Calls :
          LET c == dtrace[i]
          IN  (c.component.k = "dict" /\ c.kind # "raise") =>
                IF Truthy(c.template_data)
                THEN /\ Len(c.component_data.items) = Len(Written(c).items)
                     /\ \A j \in 1..Len(Written(c).items) :
                           /\ c.component_data.items[j][1] = Written(c).items[j][1]
                           /\ c.component_data.items[j][2] =
                                 IF Written(c).items[j][2].k = "str"
                                 THEN Text(Substituted(Written(c).items[j][2].s,
                                                       c.template_data).out)
                                 ELSE Written(c).items[j][2]
                ELSE c.component_data = Written(c)
    /\ (/\ dtrace # <<>>
        /\ LastCall.component.k = "dict"
        /\ ~Truthy(LastCall.template_data)) =>
          /\ LastCall.kind = "func" => xml[Len(xml)].data = Written(LastCall)
          /\ LastCall.kind = "macro" =>
                dstack[Len(dstack)].template_data = Written(LastCall)

\* a gen_xml call has returned after a function was called with a text
\* argument that has a value of the template data in it and an integer
\* argument, and another after one with a placeholder left as written
C12_Witness ==
    /\ dresult = Ok
    /\ \E i \in Calls :
          /\ dtrace[i].kind = "func"
          /\ Truthy(dtrace[i].template_data)
          /\ Written(dtrace[i]).items[1][2] = Text(<<"{", "v", "}">>)
          /\ dtrace[i].component_data.items =
                <<<<(<<"a">>), Text(<<"0">>)>>, <<(<<"n", "a", "m", "e">>), Number(0)>>>>
    /\ \E i \in Calls :
          /\ dtrace[i].kind = "func"
          /\ ~Truthy(dtrace[i].template_data)
          /\ dtrace[i].component_data.items =
                <<<<(<<"n", "a", "m", "e">>), Text(<<"{", "v", "}">>)>>>>

FuncCalls == {i \in Calls : dtrace[i].kind = "func"}
\* the call has come to the lookup of its name
LookedUp(c) == c.kind # "raise" \/ c.exc.v[2][1] = "Unknown entry point or macro"

\* C13: a dispatch call that looks its name up enters the macro of that name
\* of its component type whenever there is one, also when an entry point has
\* the name; it calls the function of the entry point only when there is no
\* such macro.  The functions called are those of these calls and no others,
\* so the function of a masked entry point is never called.
C13_MacroFirst ==
    /\ \A i \in Calls :
          LET c == dtrace[i]
          IN  LookedUp(c) =>
                /\ HasMacro(c.type, c.name) <=> c.kind = "macro"
                /\ c.kind = "func" =>
                      /\ ~HasMacro(c.type, c.name)
                      /\ IsFuncOf(c.func, c.name, c.type)
    /\ Len(xml) = Cardinality(FuncCalls)
    /\ \A j \in 1..Len(xml) : \A m \in parser_data.macros :
          m.type = dcall.type => ~IsFuncOf(xml[j].func, m.name, dcall.type)

\* a gen_xml call has returned after it entered a macro that has the name of
\* an entry point, and functions were called from its body
C13_Witness ==
    /\ dresult = Ok
    /\ xml # <<>>
    /\ \E i \in Calls :
          /\ dtrace[i].kind = "macro"
          /\ \E func \in {"run_param", "ext_run"} :
                IsFuncOf(func, dtrace[i].name, dtrace[i].type)

\* the call has entered a macro that has the name of an entry point
Masking(c) ==
    /\ c.kind = "macro"
    /\ c.name \in EpNames(module_eps(modules_by_component_type[c.type]))

\* C14: the names a registry has given the masking warning for are all
\* different, so no name is warned about twice by one registry, whatever the
\* component types of the calls; each dispatch call that has entered a
\* masking macro has its name among them, so the warning came at the first
\* such call or before; and a warning is given for masking macros only.
C14_WarnedOncePerName ==
    /\ \A i, j \in 1..Len(warned) : warned[i][1] = warned[j][1] => i = j
    /\ masked_warned = {warned[i][1] : i \in 1..Len(warned)}
    /\ \A i \in Calls :
          Masking(dtrace[i]) => dtrace[i].name \in masked_warned
    /\ \A i \in 1..Len(dlog) :
          /\ dlog[i].level = "warning"
          /\ \E j \in Calls : /\ Masking(dtrace[j])
                              /\ dlog[i].arg = <<dtrace[j].name, dtrace[j].type>>
    /\ \A i, j \in 1..Len(dlog) : dlog[i].arg[1] = dlog[j].arg[1] => i = j

\* a gen_xml call of triggers has returned after it entered the masking macro
\* 'run' without a warning, the registry having warned about that name in an
\* earlier call of another component type
C14_Witness ==
    /\ dresult = Ok
    /\ dcall.type = "trigger"
    /\ \E i \in Calls : Masking(dtrace[i]) /\ dtrace[i].name = <<"r", "u", "n">>
    /\ dlog = <<>>
    /\ warned = <<<<(<<"r", "u", "n">>), "parameter">>>>

\* the call that dispatched call i from the body of its macro
Caller(i) ==
    CHOOSE j \in Calls :
        /\ j < i
        /\ dtrace[j].depth = dtrace[i].depth - 1
        /\ \A k \in Calls :
              (k < i /\ dtrace[k].depth = dtrace[i].depth - 1) => k <= j
\* the calls dispatched from the body of the macro of call j
BodyCalls(j) == {i \in Calls : dtrace[i].depth > 1 /\ Caller(i) = j}

\* C15: a dispatch call made from the body of a macro has the component
\* type and the XML parent of the call that entered the macro and, as
\* template data, the arguments of that call as it formatted them and
\* nothing of its template data: none at all when the macro was named by a
\* simple name.  The calls made for a body dispatch its components in order,
\* all of them when gen_xml returns.  The calls gen_xml makes itself have no
\* template data.
C15_BodyGetsArgumentsOnly ==
    \A i \in Calls :
        IF dtrace[i].depth = 1
        THEN dtrace[i].template_data = Dict(<<>>)
        ELSE /\ \E j \in Calls : j < i /\ dtrace[j].depth = dtrace[i].depth - 1
             /\ LET j == Caller(i)
                    body == MacroBody(dtrace[j].type, dtrace[j].name)
                IN  /\ dtrace[j].kind = "macro"
                    /\ dtrace[i].type = dtrace[j].type
                    /\ dtrace[i].parent = dtrace[j].parent
                    /\ dtrace[i].template_data = dtrace[j].component_data
                    /\ dtrace[j].component.k = "str" =>
                          dtrace[i].template_data = Dict(<<>>)
                    /\ Cardinality({k \in BodyCalls(j) : k <= i}) <= Len(body)
                    /\ dtrace[i].component =
                          body[Cardinality({k \in BodyCalls(j) : k <= i})]
                    /\ dresult = Ok => Cardinality(BodyCalls(j)) = Len(body)

\* a gen_xml call is over in which the body of a macro named by a simple name
\* was dispatched with no template data, and the body of a macro entered
\* from the body of another was dispatched with the arguments it was given
\* there and not the arguments of the other
C15_Witness ==
    /\ dresult # None
    /\ \E i \in Calls :
          /\ dtrace[i].depth = 2
          /\ dtrace[Caller(i)].component.k = "str"
          /\ dtrace[i].template_data = Dict(<<>>)
    /\ \E i \in Calls :
          /\ dtrace[i].depth = 3
          /\ dtrace[Caller(i)].template_data
                = Dict(<<<<(<<"v">>), Text(<<"0">>)>>>>)
          /\ dtrace[i].template_data = Dict(<<<<(<<"x">>), Text(<<"0">>)>>>>)

\* gen_xml has returned from a list of one component: the macro m, whose
\* body is the component function 'text' with the field a: "{v}", with the
\* argument v
MacroRun(v) ==
    /\ dresult = Ok
    /\ dcall.type = "parameter"
    /\ dcall.components = <<Item(<<"m">>, Dict(<<<<(<<"v">>), v>>>>))>>
\* what dispatching the component function with the field a: v and the other
\* field of the body calls
DirectCall(v) ==
    LET Then(d) == FuncCall(d.func, XmlParent("parameter"), d.component_data)
    IN  Then(dispatch(entry_points_cache, masked_warned, allow_empty_variables,
                      "parameter",
                      Item(<<"t", "e", "x", "t">>,
                           Dict(<<<<(<<"a">>), v>>, <<(<<"n", "a", "m", "e">>), Number(0)>>>>)),
                      Dict(<<>>)))
MacroArguments == {Text(<<"0">>), Text(<<"{", "{">>), Number(0)}

\* C16 as stated: for every argument v, the macro called with v makes the
\* function calls that the component function dispatched with v makes.
C16_MacroEqualsDirect ==
    \A v \in MacroArguments : MacroRun(v) => xml = <<DirectCall(v)>>

\* C16 amended: for every text argument v, the macro called with v makes the
\* function calls that the component function dispatched with v makes; for
\* an integer v the function is called with the text of v in place of v.
C16_MacroEqualsDirectForText ==
    \A v \in MacroArguments :
        MacroRun(v) =>
            IF v.k = "str" THEN xml = <<DirectCall(v)>>
            ELSE xml = <<DirectCall(Text(str(v)))>>

\* gen_xml has returned from the macro called with the text "0", the
\* function called once with a: "0"
C16_Witness ==
    /\ MacroRun(Text(<<"0">>))
    /\ xml = <<FuncCall("text_param", "pdefs",
                        Dict(<<<<(<<"a">>), Text(<<"0">>)>>,
                               <<(<<"n", "a", "m", "e">>), Number(0)>>>>))>>

\* the name of a component
NameOf(component) ==
    IF component.k = "dict" THEN component.items[1][1] ELSE component.s
\* the entry points of the component type can be collected
Collects(component_type) ==
    ~CollectEps(module_eps(modules_by_component_type[component_type]), <<>>).dup
\* dispatch is about to be called, by a registry that has its parser data,
\* on a name that is no macro and no entry point of its component type, with
\* arguments that format without error
UnknownNext ==
    /\ dstack # <<>>
    /\ parser_data.set
    /\ dstack[Len(dstack)].pos <= Len(dstack[Len(dstack)].list)
    /\ LET loop == dstack[Len(dstack)]
           name == NameOf(loop.list[loop.pos])
       IN  /\ Registered(loop.type)
           /\ Collects(loop.type)
           /\ ~HasMacro(loop.type, name)
           /\ name \notin EpNames(module_eps(modules_by_component_type[loop.type]))
           /\ NameAndData(loop.list[loop.pos], loop.template_data,
                          allow_empty_variables).exc = None
NextName == NameOf(dstack[Len(dstack)].list[dstack[Len(dstack)].pos])

\* C17: a dispatch call on a name that is neither a macro nor an entry point
\* of its component type, once it has its name and arguments, raises JenkinsJobsException "Unknown entry point or
\* macro" with the name and the component type, calls no function and leaves
\* what the XML parent has as it is; gen_xml ends with that exception.
C17_UnknownNameRaises ==
    [][UnknownNext =>
          /\ dresult' = Raise("JenkinsJobsException",
                              <<"Unknown entry point or macro", NextName,
                                dstack[Len(dstack)].type>>)
          /\ xml' = xml
          /\ dstack' = <<>>
          /\ dtrace'[Len(dtrace')].kind = "raise"]_vars

\* gen_xml of triggers has raised for the unknown name 'z' after a function
\* was called for the component before it
C17_Witness ==
    /\ dresult = Raise("JenkinsJobsException",
                       <<"Unknown entry point or macro", <<"z">>, "trigger">>)
    /\ Len(xml) = 1
    /\ Len(dtrace) = 2

\* C18: when two entry points of a component type (from the functions of
\* the module or defined explicitly) have the same name, every gen_xml call
\* of that type, the first and each later one, ends at its first dispatch
\* call: entry point discovery runs and raises JenkinsJobsException
\* "Duplicate entry point", no macro is entered, no function is called, and
\* the cache never has an entry for the type.
C18_DuplicateRaisesEachTime ==
    /\ \A component_type \in DOMAIN modules_by_component_type :
          ~Collects(component_type) =>
             ~Cached(entry_points_cache,
                     modules_by_component_type[component_type])
    /\ (Registered(dcall.type) /\ ~Collects(dcall.type)) =>
          /\ xml = <<>>
          /\ Len(dtrace) <= 1
          /\ \A i \in Calls :
                /\ dtrace[i].kind = "raise"
                /\ dtrace[i].built
                /\ dtrace[i].exc =
                      Raise("JenkinsJobsException",
                            <<"Duplicate entry point found for component type",
                              dtrace[i].name, dtrace[i].type>>)
                /\ dresult = dtrace[i].exc
                /\ dstack = <<>>

\* gen_xml of publishers, whose entry point 'scp' is defined twice, has
\* raised on the macro 'p' before entering it, in a process that has cached
\* the entry points of another type
C18_Witness ==
    /\ dcall.type = "publisher"
    /\ dcall.components # <<>>
    /\ HasMacro("publisher", NameOf(dcall.components[1]))
    /\ dresult = Raise("JenkinsJobsException",
                       <<"Duplicate entry point found for component type",
                         <<"p">>, "publisher">>)
    /\ xml = <<>>
    /\ discovered = <<"publishers">>
    /\ entry_points_cache # {}

ComponentListTypes ==
    {modules_by_component_type[t] : t \in DOMAIN modules_by_component_type}
\* this step is a dispatch call that discovers the entry points of the type
Discovers(component_list_type) ==
    /\ discovered' = Append(discovered, component_list_type)
    /\ dtrace' # dtrace
    /\ dtrace'[Len(dtrace')].built
    /\ modules_by_component_type[dtrace'[Len(dtrace')].type] = component_list_type
\* the entry points of a component list type, once they are cached, stay as
\* they are and are not discovered again; they get cached by a dispatch call
\* of their type that discovers them, and by nothing else
CachedOnce ==
    \A t \in ComponentListTypes :
        /\ Cached(entry_points_cache, t) =>
              /\ Cached(entry_points_cache', t)
              /\ CacheGet(entry_points_cache', t) = CacheGet(entry_points_cache, t)
              /\ ~Discovers(t)
        /\ (~Cached(entry_points_cache, t) /\ Cached(entry_points_cache', t)) =>
              Discovers(t)
\* a gen_xml call that has made a dispatch call of a type whose entry points
\* can be collected has them cached, as collected; at most one entry per type
CachedAtFirstCall ==
    /\ (dtrace # <<>> /\ Registered(dcall.type) /\ Collects(dcall.type)) =>
          /\ Cached(entry_points_cache, modules_by_component_type[dcall.type])
          /\ CacheGet(entry_points_cache, modules_by_component_type[dcall.type])
                = CollectEps(module_eps(modules_by_component_type[dcall.type]),
                             <<>>).eps
          /\ dtrace[1].built <=> discovered # <<>>
          /\ \A i \in Calls : i > 1 => ~dtrace[i].built
    /\ \A e1, e2 \in entry_points_cache : e1.type = e2.type => e1 = e2
    /\ Len(discovered) <= 1

\* C19: the entry points of a component list type are discovered and cached
\* by the first dispatch call of the type (none is cached before), the
\* calls after it find them in the cache and do not run discovery, and a
\* cached entry is never changed or removed.
C19_CachedOnceAndKept == []CachedAtFirstCall /\ [][CachedOnce]_vars

\* a gen_xml call of parameters has returned that made several dispatch
\* calls, none of which discovered entry points: they were cached by an
\* earlier call
C19_Witness ==
    /\ dresult = Ok
    /\ dcall.type = "parameter"
    /\ Len(dtrace) > 1
    /\ discovered = <<>>
    /\ \A i \in Calls : ~dtrace[i].built
    /\ Cached(entry_points_cache, "parameters")

\* the function calls of a list of components, each component in its place:
\* the call of its function, or the calls of the body of its macro
RECURSIVE Expansion(_, _, _)
Expansion(component_type, components, template_data) ==
    IF components = <<>> THEN <<>>
    ELSE LET nd == NameAndData(Head(components), template_data,
                               allow_empty_variables)
             eps == module_eps(modules_by_component_type[component_type])
         IN  (IF HasMacro(component_type, nd.name)
              THEN Expansion(component_type,
                             MacroBody(component_type, nd.name),
                             nd.component_data)
              ELSE IF nd.name \in EpNames(eps)
              THEN <<FuncCall(eps[EpFunc(eps, nd.name)].func,
                              XmlParent(component_type), nd.component_data)>>
              ELSE <<>>)
             \o Expansion(component_type, Tail(components), template_data)

IsPrefix(s, t) == Len(s) <= Len(t) /\ s = SubSeq(t, 1, Len(s))
TopCalls == {i \in Calls : dtrace[i].depth = 1}

\* C20: the dispatch calls gen_xml makes are on the components of its list,
\* in order; a call made for a component comes after every call made for the
\* components before it and for the bodies of their macros; the function
\* calls made so far are, in order, the first ones of the list's expansion
\* (each component replaced by its function call or, for a macro, by the
\* calls of its body in body order), and all of them once gen_xml returns.
C20_InOrderDepthFirst ==
    (Registered(dcall.type) /\ Collects(dcall.type)) =>
        /\ \A i \in TopCalls :
              /\ Cardinality({k \in TopCalls : k <= i}) <= Len(dcall.components)
              /\ dtrace[i].component =
                    dcall.components[Cardinality({k \in TopCalls : k <= i})]
        /\ \A i \in Calls : \A k \in Calls :
              (k < i /\ dtrace[k].depth > dtrace[i].depth) =>
                  \E j \in Calls : /\ k > j
                                   /\ j < i
                                   /\ dtrace[j].depth = dtrace[i].depth
        /\ IsPrefix(xml, Expansion(dcall.type, dcall.components, Dict(<<>>)))
        /\ dresult = Ok =>
              /\ xml = Expansion(dcall.type, dcall.components, Dict(<<>>))
              /\ Cardinality(TopCalls) = Len(dcall.components)

\* gen_xml has returned from a list of a macro and a component function:
\* the two calls of the macro's body come first, then the call of the function
C20_Witness ==
    /\ dresult = Ok
    /\ dcall.type = "parameter"
    /\ Len(dcall.components) = 2
    /\ dcall.components[1] = Item(<<"r", "u", "n">>,
                                  Dict(<<<<(<<"v">>), Text(<<"0">>)>>>>))
    /\ NameOf(dcall.components[2]) = <<"t", "e", "x", "t">>
    /\ Len(xml) = 3
    /\ xml[1].data = Dict(<<<<(<<"n", "a", "m", "e">>), Text(<<"r">>)>>>>)
    /\ xml[2].data = Dict(<<<<(<<"a">>), Text(<<"0">>)>>, <<(<<"n", "a", "m", "e">>), Number(0)>>>>)
    /\ xml[3].data = dcall.components[2].items[1][2]
    /\ xml[3].data # xml[2].data


\* the dispatch calls whose component function raised
Failed ==
    {i \in Calls :
        /\ dtrace[i].kind = "func"
        /\ Generated(dtrace[i].func, dtrace[i].component_data).exc # None}

\* C21: what a component function raises (a missing or an invalid attribute,
\* a missing item of its data) is what gen_xml ends with, unchanged, whatever the depth of the macros
\* being expanded; the dispatch call of the function is the last one made:
\* no component after it, of any macro body or list at work, is dispatched.
C21_GeneratorErrorPropagates ==
    \A i \in Failed :
        /\ i = Len(dtrace)
        /\ dstack = <<>>
        /\ dresult = Generated(dtrace[i].func, dtrace[i].component_data).exc
        /\ dresult.v[1] \in {"MissingAttributeError", "InvalidAttributeError",
                            "KeyError"}
        /\ xml # <<>>
        /\ xml[Len(xml)].func = dtrace[i].func

\* gen_xml of triggers has ended with the missing attribute of 'pollscm',
\* called from the body of macro 't' in the body of macro 'u', with a
\* component left in each body and in the list
C21_Witness ==
    /\ dresult = MissingAttributeError(<<"c", "r", "o", "n">>)
    /\ dcall.components = <<Text(<<"u">>), Text(<<"i", "v", "y">>)>>
    /\ Len(dtrace) = 3
    /\ dtrace[3].depth = 3
    /\ dtrace[1].kind = "macro"
    /\ dtrace[2].kind = "macro"
    /\ dstack = <<>>


(***************************************************************************)
(* Properties of convert_mapping_to_xml.                                   *)
(***************************************************************************)
\* the entries the loop has gone through
Turned == 1..(cm_elem - 1)
ValueGiven(i) == cm_data[cm_mapping[i].optname]
\* no value is given and the default is None
AbsentWithoutDefault(i) ==
    ValueGiven(i) = Absent /\ cm_mapping[i].val = PyNone
\* the value of the entry: the one given, or else the default
ValueOf(i) ==
    IF ValueGiven(i) = Absent THEN cm_mapping[i].val ELSE ValueGiven(i)
\* the entry has valid options and its value is none of them
Outside(i) ==
    /\ cm_mapping[i].options.keys # <<>>
    /\ \A n \in 1..Len(cm_mapping[i].options.keys) :
          cm_mapping[i].options.keys[n] # ValueOf(i)
\* the text of the element: an option of a dict as the text the dict has
\* for it, a bool as lower-case text, any other value as it is
TextOf(i) ==
    LET opts == cm_mapping[i].options
    IN  IF opts.kind = "dict" /\ ~Outside(i)
        THEN opts.vals[CHOOSE n \in 1..Len(opts.keys) : opts.keys[n] = ValueOf(i)]
        ELSE IF ValueOf(i).k = "bool"
        THEN (IF ValueOf(i).v = "True" THEN "true" ELSE "false")
        ELSE ValueOf(i).v
\* the elements of the entries gone through, one for each entry but the
\* skipped ones, in the order of the mapping
RECURSIVE ElementsUpTo(_, _)
ElementsUpTo(n, skipped) ==
    IF n = 0 THEN <<>>
    ELSE IF n \in skipped THEN ElementsUpTo(n - 1, skipped)
    ELSE Append(ElementsUpTo(n - 1, skipped),
                [tag |-> cm_mapping[n].xmlname, text |-> TextOf(n)])
\* C22: convert_mapping_to_xml goes through the entries in order; an entry
\* with no value given and default None raises MissingAttributeError when
\* fail_required and is skipped otherwise; a value outside the valid options
\* raises InvalidAttributeError; every other entry gone through has appended
\* exactly one element (a dict option as the text the dict has for it, a
\* bool as lower-case text).
C22_MappingInOrder ==
    /\ cm_elem \in 1..(Len(cm_mapping) + 1)
    /\ \A i \in Turned :
          /\ ~(AbsentWithoutDefault(i) /\ cm_fail_required)
          /\ ~AbsentWithoutDefault(i) => ~Outside(i)
    /\ cm_parent = ElementsUpTo(cm_elem - 1,
                                {i \in 1..Len(cm_mapping) :
                                    AbsentWithoutDefault(i)})
    /\ cm_result = Ok => cm_elem = Len(cm_mapping) + 1
    /\ IsError(cm_result) =>
          /\ cm_elem <= Len(cm_mapping)
          /\ \/ /\ AbsentWithoutDefault(cm_elem)
                /\ cm_fail_required
                /\ cm_result = Raise("MissingAttributeError",
                                     <<"Missing from an instance",
                                       cm_mapping[cm_elem].optname, "">>)
             \/ /\ ~AbsentWithoutDefault(cm_elem)
                /\ Outside(cm_elem)
                /\ cm_result = Raise("InvalidAttributeError",
                                     <<"is an invalid value for attribute",
                                       cm_mapping[cm_elem].optname, "">>)
    /\ (cm_result = None /\ cm_elem <= Len(cm_mapping)) =>
          ENABLED ConvertEntry


\* this step is a call of format() on the LazyLoader held
Formats == stack = <<>> /\ IsLazy(held) /\ call' # call /\ call'.op = "format"

\* C23: format(args) on a LazyLoader leaves the path it stores as it was
\* when the LazyLoader was made, and every call, the first and the later
\* ones, opens that path with the arguments of the call substituted,
\* whatever the calls before it were given.
C23_FormatKeepsStoredPath ==
    [][Formats =>
          /\ held'.v.node = held.v.node
          /\ held.v.node = created.lazy.v.node
          /\ Format(created.lazy.v.node, call'.args).err = "none" =>
                call'.doc = ScalarDoc(ScalarNode(created.lazy.v.cls,
                               Format(created.lazy.v.node, call'.args).out))]_vars


Lazy(path) == Format(path, NoArgs).err = "KeyError"
\* load() has returned or raised for a document that is one tagged sequence
\* node with a lazy path, every other path being a file of the search path
LoadedLazySequence ==
    /\ Completed
    /\ call.op = "load"
    /\ call.doc.root = "scalar"
    /\ TheNode.k = "tag"
    /\ TheNode.s
    /\ \E i \in 1..Len(TheNode.v) : Lazy(TheNode.v[i])
    /\ \A i \in 1..Len(TheNode.v) :
          \/ Lazy(TheNode.v[i])
          \/ Eager(TheNode.v[i]) /\ FoundIn(TheNode.v[i], call.loader.search_path)

\* C24: an include tag of any kind (!include:, !include-raw:,
\* !include-raw-escape: and the deprecated spellings) on a sequence of
\* paths of which at least one is lazy loads to a LazyLoaderCollection with
\* one member for each path, in the order of the list: a LazyLoader of the
\* path for a lazy path, the content of the file as it is (not escaped) for
\* any other; the load raises nothing.
C24_LazySequenceLoadsToCollection ==
    LoadedLazySequence =>
        /\ result.k = "lazycoll"
        /\ Len(result.v) = Len(TheNode.v)
        /\ \A i \in 1..Len(TheNode.v) :
              IF Lazy(TheNode.v[i])
              THEN /\ IsLazy(result.v[i])
                   /\ result.v[i].v.node = TheNode.v[i]
              ELSE result.v[i] =
                      Str(FirstText(TheNode.v[i], call.loader.search_path))


\* format() has returned or raised for a LazyLoaderCollection made by an
\* !include-raw: tag, every path of which is lazy or a file of the search
\* path, with arguments the lazy paths format with
FormattedRawCollection ==
    /\ Completed
    /\ call.op = "format_collection"
    /\ NewTag(TheNode.n) = RawTag
    /\ \A i \in 1..Len(TheNode.v) :
          \/ /\ Lazy(TheNode.v[i])
             /\ Format(TheNode.v[i], call.args).err = "none"
          \/ /\ Eager(TheNode.v[i])
             /\ FoundIn(TheNode.v[i], call.loader.search_path)
\* the path list with the arguments substituted into the lazy paths
SubstitutedPaths ==
    [i \in 1..Len(TheNode.v) |->
        IF Lazy(TheNode.v[i]) THEN Format(TheNode.v[i], call.args).out
        ELSE TheNode.v[i]]

\* C25: format(args) on a LazyLoaderCollection made by !include-raw: returns
\* what !include-raw: returns for the same list of paths with args
\* substituted: the contents of the files joined by newlines in list order,
\* the content of a file read when the collection was made being taken as it
\* is, not formatted with args.
C25_CollectionEqualsEagerInclude ==
    FormattedRawCollection =>
        result = YamlIncludeRaw_from_yaml(
                    call.loader, SequenceNode(RawTag, SubstitutedPaths)).val


\* the document an !include: of one path loads, by itself
NestedDocument(path) ==
    IncludeAll(ScalarNode(IncludeTag, path), call.loader, {}, <<>>, <<>>).val
RECURSIVE Concatenated(_)
Concatenated(lists) ==
    IF lists = <<>> THEN <<>> ELSE Head(lists).v \o Concatenated(Tail(lists))
\* load() has returned or raised for a document that is one !include: tag
\* on a sequence of paths, each of them not lazy and the path of a file that
\* loads by itself
LoadedEagerInlineSequence ==
    /\ Completed
    /\ call.op = "load"
    /\ call.doc.root = "scalar"
    /\ TheNode.k = "tag"
    /\ NewTag(TheNode.n) = IncludeTag
    /\ TheNode.s
    /\ \A i \in 1..Len(TheNode.v) :
          /\ Eager(TheNode.v[i])
          /\ FoundIn(TheNode.v[i], call.loader.search_path)
          /\ NestedDocument(TheNode.v[i]).k \in {"str", "list"}

\* C26: an !include: on a sequence of paths, none of them lazy, loads each
\* file as a nested document and returns the documents put together in list
\* order, texts joined by newlines and lists one after the other; it raises
\* nothing, whatever the documents are.
C26_InlineSequenceConcatenates ==
    LoadedEagerInlineSequence =>
        LET docs == [i \in 1..Len(TheNode.v) |-> NestedDocument(TheNode.v[i])]
        IN  /\ ~IsError(result)
            /\ (\A i \in 1..Len(docs) : docs[i].k = "str") =>
                  result = Str(Join([i \in 1..Len(docs) |-> docs[i].v]))
            /\ (docs # <<>> /\ \A i \in 1..Len(docs) : docs[i].k = "list") =>
                  result = ListOf(Concatenated(docs))


\* C27: an !include: of a file loads the text of the file with a loader
\* configured as the loader of the including document is: the includes of
\* the included document find the files they would find along that loader's
\* search path, and its !include-raw-escape: tags escape with that loader's
\* escape_callback, the one the caller of load() supplied if any.
C27_NestedLoaderAsParent ==
    (/\ LoadedScalar
     /\ NewTag(TheNode.n) = IncludeTag
     /\ Eager(ThePath)
     /\ FoundIn(ThePath, call.loader.search_path)) =>
        result = yaml_load(Parse(FirstText(ThePath, call.loader.search_path)),
                           call.loader, {}).val


\* the macros of a component type, and those the body of a macro invokes
MacroNames(component_type) ==
    {m.name : m \in {n \in parser_data.macros : n.type = component_type}}
Invoked(component_type, name) ==
    {NameOf(MacroBody(component_type, name)[i]) :
        i \in 1..Len(MacroBody(component_type, name))}
        \cap MacroNames(component_type)
\* the macros reached from a set of macros in at most n invocations
RECURSIVE Reached(_, _, _)
Reached(component_type, names, n) ==
    IF n = 0 THEN names
    ELSE Reached(component_type,
                 names \cup UNION {Invoked(component_type, m) : m \in names},
                 n - 1)
\* the macro invokes itself, directly or through other macros
Cyclic(component_type, name) ==
    /\ HasMacro(component_type, name)
    /\ name \in Reached(component_type, Invoked(component_type, name),
                        Cardinality(MacroNames(component_type)))
\* the macro invocations reachable from the list of the gen_xml call have
\* no cycle
AcyclicCall ==
    \A i \in 1..Len(dcall.components) :
        LET name == NameOf(dcall.components[i])
        IN  HasMacro(dcall.type, name) =>
               \A m \in Reached(dcall.type, {name},
                                Cardinality(MacroNames(dcall.type))) :
                   ~Cyclic(dcall.type, m)
\* a macro that invokes itself has been dispatched in the gen_xml call
InCycle == \E i \in Calls : dtrace[i].kind = "macro"
                            /\ Cyclic(dtrace[i].type, dtrace[i].name)
\* once a macro that invokes itself is dispatched the call never returns
\* normally; all it can end with is the interpreter's recursion error, raised
\* when the dispatch calls at work are as many as the interpreter allows, each
\* a macro entered from the body of the one before: no error about the cycle
NoReturnFromCycle ==
    InCycle =>
        /\ dresult # Ok
        /\ IsError(dresult) =>
              /\ dresult = Raise("RuntimeError",
                                 <<"maximum recursion depth exceeded", <<>>, "">>)
              /\ dtrace[Len(dtrace)].depth = MaxDepth
              /\ dtrace[Len(dtrace)].kind = "macro"
              /\ \A n \in 1..MaxDepth :
                    \E i \in Calls : /\ dtrace[i].depth = n
                                     /\ dtrace[i].kind = "macro"

\* C28: a gen_xml call whose reachable macro invocations have no cycle ends:
\* it returns or raises.  Once a macro that invokes itself, directly or
\* through another macro, is dispatched, the call never returns normally
\* and no error about the cycle is raised: the dispatch calls nest deeper
\* and deeper, up to whatever the interpreter allows.
C28_TerminatesUnlessCyclic ==
    /\ []NoReturnFromCycle
    /\ (dstack # <<>> /\ AcyclicCall) ~> (dstack = <<>> /\ dresult # None)
    /\ (dstack # <<>> /\ InCycle) ~> (Len(dstack) > MaxDepth \/ IsError(dresult))

\* gen_xml of builders on the macro 'd', which invokes 'e', which invokes
\* 'd', has ended with the recursion error of the interpreter after as many
\* nested dispatch calls as it allows, with no function called
C28_Witness ==
    /\ dcall.type = "builder"
    /\ dcall.components = <<Text(<<"d">>)>>
    /\ dresult = Raise("RuntimeError",
                       <<"maximum recursion depth exceeded", <<>>, "">>)
    /\ Len(dtrace) = MaxDepth
    /\ dtrace[1].name = <<"d">>
    /\ dtrace[2].name = <<"e">>
    /\ dtrace[3].name = <<"d">>
    /\ xml = <<>>


\* C29: the entry points cache is one for all the registries of a process.
\* What a registry finds cached when it is created, by the registries
\* before it, stays cached as it is, and every dispatch call of the new
\* registry for such a component type runs no discovery and looks the name
\* up in the entry points found cached: it calls the function they have for
\* the name, or raises for a name they do not have.
C29_CacheSharedByRegistries ==
    /\ inherited \subseteq entry_points_cache
    /\ \A j \in 1..Len(discovered) : ~Cached(inherited, discovered[j])
    /\ \A i \in Calls :
          (/\ Registered(dtrace[i].type)
           /\ Cached(inherited, modules_by_component_type[dtrace[i].type])) =>
              LET eps == CacheGet(inherited,
                                  modules_by_component_type[dtrace[i].type])
              IN  /\ ~dtrace[i].built
                  /\ dtrace[i].kind = "func" =>
                        /\ dtrace[i].name \in EpNames(eps)
                        /\ dtrace[i].func = eps[EpFunc(eps, dtrace[i].name)].func
                  /\ (dtrace[i].kind = "raise" /\ LookedUp(dtrace[i])) =>
                        dtrace[i].name \notin EpNames(eps)

\* a registry created after the entry points of triggers were cached has
\* returned from gen_xml of triggers: it ran no discovery, gave the warning
\* of a registry that meets the masking macro 'run' for the first time, and
\* called the function cached for 'ivy'
C29_Witness ==
    /\ Cached(inherited, "triggers")
    /\ dcall.type = "trigger"
    /\ dresult = Ok
    /\ discovered = <<>>
    /\ warned = <<<<(<<"r", "u", "n">>), "trigger">>>>
    /\ xml # <<>>
    /\ \A i \in Calls : ~dtrace[i].built


(***************************************************************************)
(* A LazyLoader formatted in a later session.                              *)
(***************************************************************************)
\* format() of the held LazyLoader has returned, and the path it formatted
\* names a file whose document is one alias
FormattedToAlias(a) ==
    /\ Completed
    /\ call.op = "format"
    /\ call.args \in Kwargs
    /\ Format(created.lazy.v.node, call.args).err = "none"
    /\ FoundIn(call.doc.events[1].v[1], call.loader.search_path)
    /\ FirstText(call.doc.events[1].v[1], call.loader.search_path) = <<"*", a>>

UndefinedAlias(a) ==
    Raise("ComposerError: found undefined alias", [dir |-> "", name |-> <<a>>])

\* C30: a LazyLoader made in one session and formatted later parses the
\* document it includes against the anchors of the session under way when
\* it is formatted: an alias of that document resolves to the node this
\* session has defined for the anchor, and fails as an undefined alias when
\* this session has defined none, whatever the session that made the
\* LazyLoader had defined.
C30_FormatUsesCurrentAnchors ==
    \A a \in AnchorNames :
        FormattedToAlias(a) =>
            IF \E d \in sessionDefs : d.name = a
            THEN \E d \in sessionDefs : d.name = a /\ result = Str(d.node.v)
            ELSE result = UndefinedAlias(a)

\* the session that made the LazyLoader had defined the anchor a; a later
\* load() has defined none, and format() then failed on the alias *a
C30_Witness ==
    /\ FormattedToAlias("a")
    /\ Defined(created.table, "a")
    /\ sessionDefs = {}
    /\ anchors = {}
    /\ result = UndefinedAlias("a")
====
